---------------------------- MODULE Spec2Model ----------------------------
(***************************************************************************)
(* Verification model of the Excalidraw MCP app: the streaming recoverer   *)
(* (parsePartialElements), the pseudo-element extractor, the create_view   *)
(* resolution on the server, the DiagramView resolution passes of the      *)
(* widget and its geometry normalization pipeline.                         *)
(*                                                                         *)
(* Text is modelled as a sequence of lexical units: a unit is one          *)
(* punctuation character ([ ] { } , : "), one space, one digit, or one     *)
(* word of letters.  Words occur only inside string literals, so cutting a *)
(* text inside a word and cutting it after the word leave the same         *)
(* unterminated string literal.  A JSON value is the record                *)
(*   [k |-> kind, s |-> units of a string or number, o |-> members]        *)
(* where a member is [key |-> units, val |-> value] (key is <<>> for the   *)
(* items of an array).                                                     *)
(***************************************************************************)
EXTENDS Integers, Sequences, FiniteSets, TLC

VARIABLES
    payload,    \* parse: the complete text the stream will eventually hold
    cut,        \* parse: number of units of payload received so far
    recovered,  \* parse: last result of parsePartialElements
    strict,     \* parse: last result of JSON.parse on the received text
    pstep,      \* parse: "idle" before a text was recovered, "done" after
    store,      \* server: the checkpoint store, checkpoint id -> checkpoint
    prevStore,  \* server: the store as it was when the last call started
    minted,     \* server: number of checkpoint ids generated so far
    req,        \* server: arguments of the last create_view call
    result,     \* server: CallToolResult of the last create_view call
    call,       \* server: base and resolvedElements of the last create_view call
    edit,       \* server: arguments of the last save_checkpoint call
    idem,       \* server: the first of the restoring calls repeated with equal arguments
    winput,     \* widget: the invocation, its entries and whether its text is closed
    wcut,       \* widget: number of entries the last partial frame held
    chunks,     \* widget: number of partial frames delivered
    wfinal,     \* widget: the final payload has been delivered
    passes,     \* widget: the resolution passes started, in start order
    fontsLoaded, \* widget: the font promise has resolved
    fontsQueue, \* widget: the passes waiting on the font promise, in order
    latestRef,  \* widget: latestRef.current
    restoredRef, \* widget: restoredRef.current
    shown,      \* widget: the scene of the SVG in the document
    sceneBounds, \* widget: the scene sceneBoundsRef.current was computed from
    targetVP,   \* widget: targetVP.current
    animatedVP, \* widget: animatedVP.current
    lastFrame,  \* widget: what the effect's last run parsed, passed on and extracted
    ginput,     \* geometry: the converted scene handed to the normalization pipeline
    gscene,     \* geometry: the scene after the steps run so far
    gprev,      \* geometry: the scene the last step was applied to
    gstage,     \* geometry: pipeline steps run, -2 before merging; the second pass is 5..8
    gfresh,     \* geometry: number of group ids crypto.randomUUID() has produced
    gfirst,     \* geometry: the scene the first pass of the pipeline produced
    graw,       \* geometry: the drawable elements as authored, before label merging
    camAnimated, \* camera: animatedVP.current, in thousandths of a pixel
    camTarget,  \* camera: targetVP.current, in thousandths of a pixel
    rafPending, \* camera: the animation-frame callbacks requested and not yet run or cancelled
    animFrameRef, \* camera: animFrameRef.current
    svgMounted, \* camera: svgRef.current is set (the component is mounted)
    exporting,  \* camera: the renders suspended in exportToSvg, in start order
    renders,    \* camera: number of renders started
    boundsOf,   \* camera: the render whose scene sceneBoundsRef.current was computed from
    svgImage,   \* camera: the render whose SVG is in the document
    viewBox,    \* camera: the viewport and scene bounds of the viewBox last written
    camLast,    \* camera: the last step and the camera it found
    camFirst,   \* camera: whether the first directive applied was snapped to
    exportFailed, \* camera: the last render whose export failed, and the bounds before it
    userEdits,  \* app: the userEdits state, "null" or "edits"
    appElements, \* app: the elements state: empty, the user's edits or a final pass's scene
    displayMode, \* app: the displayMode state
    latestEdited, \* app: getLatestEditedElements() returns elements
    finals,     \* app: the final passes started, with the editedElements each one captured
    preview,    \* app: the final pass whose renderSvgPreview call was the last, 0 for none
    appLast     \* app: the last step of a final pass and whether user edits existed before it

parseVars == <<payload, cut, recovered, strict, pstep>>

serverVars == <<store, prevStore, minted, req, result, call, edit, idem>>

widgetVars ==
    <<winput, wcut, chunks, wfinal, passes, fontsLoaded, fontsQueue, latestRef, restoredRef,
      shown, sceneBounds, targetVP, animatedVP, lastFrame>>

geomVars == <<ginput, gscene, gprev, gstage, gfresh, gfirst, graw>>

cameraVars ==
    <<camAnimated, camTarget, rafPending, animFrameRef, svgMounted, exporting, renders,
      boundsOf, svgImage, viewBox, camLast, camFirst, exportFailed>>

appVars == <<userEdits, appElements, displayMode, latestEdited, finals, preview, appLast>>

vars == <<parseVars, serverVars, widgetVars, geomVars, cameraVars, appVars>>

-----------------------------------------------------------------------------
(* Bounds *)

MaxEls == 2

\* Most entries a create_view call holds after its restore entries.
MaxBodyEls == 2

\* Most partial frames delivered before the final payload.
MaxChunks == 2

-----------------------------------------------------------------------------
(* Lexical units and JSON values *)

Q == "\""

Digits == {"0", "1", "2", "3", "4", "5", "6", "7", "8", "9"}

Undefined == [k |-> "undefined", s |-> <<>>, o |-> <<>>]

StrVal(u) == [k |-> "str", s |-> u, o |-> <<>>]

NumVal(u) == [k |-> "num", s |-> u, o |-> <<>>]

ObjVal(m) == [k |-> "obj", s |-> <<>>, o |-> m]

ArrVal(m) == [k |-> "arr", s |-> <<>>, o |-> m]

Member(key, val) == [key |-> key, val |-> val]

Items(v) == [n \in 1..Len(v.o) |-> v.o[n].val]

SetMin(S) == CHOOSE x \in S : \A y \in S : x <= y

SetMax(S) == CHOOSE x \in S : \A y \in S : x >= y

-----------------------------------------------------------------------------
(* JSON.parse on unit sequences: a recursive-descent parser of the JSON    *)
(* grammar restricted to objects, arrays, strings and unsigned integers.   *)

ParseFail == [ok |-> FALSE, v |-> Undefined, i |-> 0]

ParseOk(v, i) == [ok |-> TRUE, v |-> v, i |-> i]

RECURSIVE SkipWs(_, _)
SkipWs(s, i) == IF i <= Len(s) /\ s[i] = " " THEN SkipWs(s, i + 1) ELSE i

ParseString(s, i) ==
    LET close == {j \in (i + 1)..Len(s) : s[j] = Q}
    IN  IF close = {} THEN ParseFail
        ELSE ParseOk(StrVal(SubSeq(s, i + 1, SetMin(close) - 1)), SetMin(close) + 1)

ParseNumber(s, i) ==
    LET stop == {j \in i..(Len(s) + 1) : j > Len(s) \/ s[j] \notin Digits}
        e == SetMin(stop)
    IN  IF s[i] = "0" /\ e > i + 1 THEN ParseFail
        ELSE ParseOk(NumVal(SubSeq(s, i, e - 1)), e)

\* obj[key] = val while an object is read: a repeated key keeps its first
\* position and takes the later value.
AddMember(acc, key, val) ==
    LET at == {n \in 1..Len(acc) : acc[n].key = key}
    IN  IF at = {} THEN Append(acc, Member(key, val))
        ELSE [n \in 1..Len(acc) |-> IF n \in at THEN Member(key, val) ELSE acc[n]]

RECURSIVE ParseValue(_, _), ParseMembers(_, _, _), ParseItems(_, _, _)

ParseValue(s, i) ==
    IF i > Len(s) THEN ParseFail
    ELSE IF s[i] = "{" THEN
        LET j == SkipWs(s, i + 1)
        IN  IF j <= Len(s) /\ s[j] = "}" THEN ParseOk(ObjVal(<<>>), j + 1)
            ELSE ParseMembers(s, j, <<>>)
    ELSE IF s[i] = "[" THEN
        LET j == SkipWs(s, i + 1)
        IN  IF j <= Len(s) /\ s[j] = "]" THEN ParseOk(ArrVal(<<>>), j + 1)
            ELSE ParseItems(s, j, <<>>)
    ELSE IF s[i] = Q THEN ParseString(s, i)
    ELSE IF s[i] \in Digits THEN ParseNumber(s, i)
    ELSE ParseFail

ParseMembers(s, i, acc) ==
    IF i > Len(s) \/ s[i] # Q THEN ParseFail
    ELSE LET key == ParseString(s, i)
         IN  IF ~key.ok THEN ParseFail
             ELSE LET c == SkipWs(s, key.i)
                  IN  IF c > Len(s) \/ s[c] # ":" THEN ParseFail
                      ELSE LET val == ParseValue(s, SkipWs(s, c + 1))
                           IN  IF ~val.ok THEN ParseFail
                               ELSE LET e == SkipWs(s, val.i)
                                        acc2 == AddMember(acc, key.v.s, val.v)
                                    IN  IF e > Len(s) THEN ParseFail
                                        ELSE IF s[e] = "}" THEN ParseOk(ObjVal(acc2), e + 1)
                                        ELSE IF s[e] = "," THEN ParseMembers(s, SkipWs(s, e + 1), acc2)
                                        ELSE ParseFail

ParseItems(s, i, acc) ==
    LET val == ParseValue(s, i)
    IN  IF ~val.ok THEN ParseFail
        ELSE LET e == SkipWs(s, val.i)
                 acc2 == Append(acc, Member(<<>>, val.v))
             IN  IF e > Len(s) THEN ParseFail
                 ELSE IF s[e] = "]" THEN ParseOk(ArrVal(acc2), e + 1)
                 ELSE IF s[e] = "," THEN ParseItems(s, SkipWs(s, e + 1), acc2)
                 ELSE ParseFail

\* JSON.parse(str): the value, or a failure when str is not one complete JSON text.
JsonParse(s) ==
    LET r == ParseValue(s, SkipWs(s, 1))
    IN  IF r.ok /\ SkipWs(s, r.i) = Len(s) + 1 THEN r ELSE ParseFail

\* String.prototype.trim on units: drop the spaces at both ends.
Trim(s) ==
    LET keep == {j \in 1..Len(s) : s[j] # " "}
    IN  IF keep = {} THEN <<>> ELSE SubSeq(s, SetMin(keep), SetMax(keep))

\* str.lastIndexOf("}"), 1-based; 0 when there is none (-1 in the source).
LastIndexOfBrace(s) ==
    LET at == {j \in 1..Len(s) : s[j] = "}"}
    IN  IF at = {} THEN 0 ELSE SetMax(at)

\* Mutant: the text is cut before the last closing brace instead of after it.
parsePartialElements_offByOne(str) ==
    LET whole == JsonParse(str)
    IN
    IF Trim(str) = <<>> \/ Head(Trim(str)) # "[" THEN <<>>
    ELSE IF whole.ok THEN Items(whole.v)
    ELSE LET last == LastIndexOfBrace(str)
         IN  IF last = 0 THEN <<>>
             ELSE LET again == JsonParse(SubSeq(str, 1, last - 1) \o <<"]">>)
                  IN  IF again.ok THEN Items(again.v) ELSE <<>>

parsePartialElements(str) ==
    LET whole == JsonParse(str)
    IN
    IF Trim(str) = <<>> \/ Head(Trim(str)) # "[" THEN <<>>
    ELSE IF whole.ok THEN Items(whole.v)
    ELSE LET last == LastIndexOfBrace(str)
         IN  IF last = 0 THEN <<>>
             ELSE LET again == JsonParse(SubSeq(str, 1, last) \o <<"]">>)
                  IN  IF again.ok THEN Items(again.v) ELSE <<>>

-----------------------------------------------------------------------------
(* JSON.stringify on values (used by read_checkpoint and to write the      *)
(* element texts of the model's inputs).                                   *)

RECURSIVE JsonStringify(_), StringifyMembers(_, _)

JsonStringify(v) ==
    IF v.k = "str" THEN <<Q>> \o v.s \o <<Q>>
    ELSE IF v.k = "num" THEN v.s
    ELSE IF v.k = "obj" THEN <<"{">> \o StringifyMembers(v.o, TRUE) \o <<"}">>
    ELSE <<"[">> \o StringifyMembers(v.o, FALSE) \o <<"]">>

StringifyMembers(m, keyed) ==
    IF m = <<>> THEN <<>>
    ELSE (IF keyed THEN <<Q>> \o Head(m).key \o <<Q, ":">> ELSE <<>>)
         \o JsonStringify(Head(m).val)
         \o (IF Len(m) > 1 THEN <<",">> ELSE <<>>)
         \o StringifyMembers(Tail(m), keyed)

-----------------------------------------------------------------------------
(* Element access as JavaScript evaluates it on parsed JSON.               *)

\* el[key]: the value of the member named key, undefined when absent.
Get(el, key) ==
    IF el.k # "obj" THEN Undefined
    ELSE LET at == {n \in 1..Len(el.o) : el.o[n].key = <<key>>}
         IN  IF at = {} THEN Undefined ELSE el.o[SetMin(at)].val

\* {...el, [key]: val}
ObjSet(el, key, val) ==
    LET at == {n \in 1..Len(el.o) : el.o[n].key = <<key>>}
    IN  IF at = {} THEN ObjVal(Append(el.o, Member(<<key>>, val)))
        ELSE ObjVal([n \in 1..Len(el.o) |-> IF n \in at THEN Member(<<key>>, val) ELSE el.o[n]])

\* el.type === w
TypeIs(el, w) == Get(el, "type") = StrVal(<<w>>)

\* JavaScript truthiness of a parsed value.
Truthy(v) ==
    CASE v.k = "undefined" -> FALSE
      [] v.k = "str" -> v.s # <<>>
      [] v.k = "num" -> v.s # <<"0">>
      [] OTHER -> TRUE

\* String(v) for the values an id or ids member holds.
ToStr(v) ==
    CASE v.k = "undefined" -> <<"undefined">>
      [] v.k = "str" -> v.s
      [] v.k = "num" -> v.s
      [] OTHER -> <<"[object Object]">>

\* a ?? b
Coalesce(a, b) == IF a.k = "undefined" THEN b ELSE a

\* str.split(","): the segments between the commas.
RECURSIVE SplitComma(_)
SplitComma(s) ==
    LET at == {j \in 1..Len(s) : s[j] = ","}
    IN  IF at = {} THEN <<s>>
        ELSE <<SubSeq(s, 1, SetMin(at) - 1)>> \o SplitComma(SubSeq(s, SetMin(at) + 1, Len(s)))

\* The ids one delete entry names: String(el.ids ?? el.id).split(","), trimmed.
DeleteEntryIds(el) ==
    LET parts == SplitComma(ToStr(Coalesce(Get(el, "ids"), Get(el, "id"))))
    IN  {Trim(parts[n]) : n \in 1..Len(parts)}

\* deleteIds.has(v): set membership of a parsed value in a set of strings.
HasId(ids, v) == v.k = "str" /\ v.s \in ids

\* The entries of seq at the indexes of at, in increasing index order.
RECURSIVE PickSeq(_, _)
PickSeq(seq, at) ==
    IF at = {} THEN <<>>
    ELSE <<seq[SetMin(at)]>> \o PickSeq(seq, at \ {SetMin(at)})

\* arr.filter(Keep)
FilterSeq(seq, Keep(_)) == PickSeq(seq, {n \in 1..Len(seq) : Keep(seq[n])})

-----------------------------------------------------------------------------
(* The checkpoint store (interface: save overwrites, load returns the      *)
(* checkpoint or nothing).                                                 *)

NoCheckpoint == [present |-> FALSE, elements |-> <<>>, plan |-> ""]

Checkpoint(elements, plan) == [present |-> TRUE, elements |-> elements, plan |-> plan]

\* The ids crypto.randomUUID() yields, in the order it yields them: each call
\* returns an id it has not returned before.
GeneratedIds == <<"k1", "k2">>

StoreKeys == {<<GeneratedIds[n]>> : n \in 1..Len(GeneratedIds)}

EmptyStore == [id \in StoreKeys |-> NoCheckpoint]

StoreLoad(st, id) == IF id \in DOMAIN st THEN st[id] ELSE NoCheckpoint

StoreSave(st, id, data) == [st EXCEPT ![id] = data]

-----------------------------------------------------------------------------
(* create_view on the server.                                              *)

MAX_INPUT_BYTES == 5242880

\* parsed.find(el => el.type === "restoreCheckpoint")
FindRestore(parsed) ==
    LET at == {n \in 1..Len(parsed) : TypeIs(parsed[n], "restoreCheckpoint")}
    IN  IF at = {} THEN Undefined ELSE parsed[SetMin(at)]

\* The delete ids accumulated over all delete entries of the call.
CallDeleteIds(parsed) ==
    UNION {DeleteEntryIds(parsed[n]) : n \in {m \in 1..Len(parsed) : TypeIs(parsed[m], "delete")}}

\* Mutant: only the element's own id is looked up, not its containerId.
KeepBase_idOnly(ids, el) == ~HasId(ids, Get(el, "id"))

KeepBase(ids, el) == ~HasId(ids, Get(el, "id")) /\ ~HasId(ids, Get(el, "containerId"))

BaseFiltered(base, ids) ==
    LET Keep(el) == KeepBase(ids, el) IN FilterSeq(base, Keep)

\* Mutant: the delete entries of a restoring call are kept as new elements.
IsNewEl_keepDelete(el) == ~TypeIs(el, "restoreCheckpoint")

IsNewEl(el) == ~TypeIs(el, "restoreCheckpoint") /\ ~TypeIs(el, "delete")

NewEls(parsed) == FilterSeq(parsed, IsNewEl)

IsNotDelete(el) == ~TypeIs(el, "delete")

\* The scene create_view saves, given the parsed array and the loaded base
\* (base is NoCheckpoint on the path without a restore id).
ResolvedElements(parsed, restoring, base) ==
    IF restoring
    THEN BaseFiltered(base.elements, CallDeleteIds(parsed)) \o NewEls(parsed)
    ELSE FilterSeq(parsed, IsNotDelete)

ErrorResult(kind, id) == [isError |-> TRUE, kind |-> kind, id |-> id]

OkResult(id) == [isError |-> FALSE, kind |-> "displayed", id |-> id]

NoResult == [isError |-> FALSE, kind |-> "none", id |-> <<>>]

\* The handler's locals: what store.load returned as the base's elements (none
\* without a restore id) and resolvedElements, what it passed to store.save.
NoCall == [base |-> <<>>, resolved |-> <<>>]

\* No save_checkpoint call has been made since the last response.
NoEdit == [has |-> FALSE, id |-> <<>>, data |-> [kind |-> "object", picks |-> <<>>]]

\* No successful restoring call has been made yet.
NoRepeat ==
    [has |-> FALSE, req |-> [picks |-> <<>>, closed |-> TRUE, plan |-> ""], id |-> <<>>,
     elements |-> <<>>, plan |-> "", clean |-> TRUE, again |-> FALSE]

Call(base, resolved) == [base |-> base, resolved |-> resolved]

\* Mutant: a missing checkpoint is treated as an empty base instead of an error.
CreateViewOutcome_ignoreMissing(st, elements, plan, newId) ==
    LET json == JsonParse(elements)
    IN
    IF ~json.ok
    THEN [result |-> ErrorResult("invalid json", <<>>), store |-> st, call |-> NoCall]
    ELSE LET parsed == Items(json.v)
             restoreEl == FindRestore(parsed)
             restoring == Truthy(Get(restoreEl, "id"))
             base == IF restoring THEN StoreLoad(st, ToStr(Get(restoreEl, "id")))
                     ELSE NoCheckpoint
         IN  [result |-> OkResult(newId),
              store |-> StoreSave(st, newId,
                           Checkpoint(ResolvedElements(parsed, restoring, base), plan)),
                   call |-> Call(base.elements, ResolvedElements(parsed, restoring, base))]

\* Mutant: a restoring call saves under the restored id instead of the new one.
CreateViewOutcome_overwriteBase(st, elements, plan, newId) ==
    LET json == JsonParse(elements)
    IN
    IF ~json.ok
    THEN [result |-> ErrorResult("invalid json", <<>>), store |-> st, call |-> NoCall]
    ELSE LET parsed == Items(json.v)
             restoreEl == FindRestore(parsed)
             restoring == Truthy(Get(restoreEl, "id"))
             base == IF restoring THEN StoreLoad(st, ToStr(Get(restoreEl, "id")))
                     ELSE NoCheckpoint
         IN  IF restoring /\ ~base.present
             THEN [result |-> ErrorResult("not found", ToStr(Get(restoreEl, "id"))),
                   store |-> st, call |-> NoCall]
             ELSE [result |-> OkResult(newId),
                   store |-> StoreSave(st,
                                IF restoring THEN ToStr(Get(restoreEl, "id")) ELSE newId,
                                Checkpoint(ResolvedElements(parsed, restoring, base), plan)),
                   call |-> Call(base.elements, ResolvedElements(parsed, restoring, base))]

\* Mutant: a restoring call also writes the resolved scene back to its base.
CreateViewOutcome_growBase(st, elements, plan, newId) ==
    LET json == JsonParse(elements)
    IN
    IF ~json.ok
    THEN [result |-> ErrorResult("invalid json", <<>>), store |-> st, call |-> NoCall]
    ELSE LET parsed == Items(json.v)
             restoreEl == FindRestore(parsed)
             restoring == Truthy(Get(restoreEl, "id"))
             base == IF restoring THEN StoreLoad(st, ToStr(Get(restoreEl, "id")))
                     ELSE NoCheckpoint
             saved == Checkpoint(ResolvedElements(parsed, restoring, base), plan)
         IN  IF restoring /\ ~base.present
             THEN [result |-> ErrorResult("not found", ToStr(Get(restoreEl, "id"))),
                   store |-> st, call |-> NoCall]
             ELSE [result |-> OkResult(newId),
                   store |-> IF restoring
                             THEN StoreSave(StoreSave(st, newId, saved),
                                            ToStr(Get(restoreEl, "id")), saved)
                             ELSE StoreSave(st, newId, saved),
                   call |-> Call(base.elements, ResolvedElements(parsed, restoring, base))]

\* The handler: the result it returns and the store it leaves.
CreateViewOutcome(st, elements, plan, newId) ==
    LET json == JsonParse(elements)
    IN
    IF Len(elements) > MAX_INPUT_BYTES
    THEN [result |-> ErrorResult("too large", <<>>), store |-> st, call |-> NoCall]
    ELSE IF ~json.ok
    THEN [result |-> ErrorResult("invalid json", <<>>), store |-> st, call |-> NoCall]
    ELSE LET parsed == Items(json.v)
             restoreEl == FindRestore(parsed)
             restoring == Truthy(Get(restoreEl, "id"))
             base == IF restoring THEN StoreLoad(st, ToStr(Get(restoreEl, "id")))
                     ELSE NoCheckpoint
         IN  IF restoring /\ ~base.present
             THEN [result |-> ErrorResult("not found", ToStr(Get(restoreEl, "id"))),
                   store |-> st, call |-> NoCall]
             ELSE [result |-> OkResult(newId),
                   store |-> StoreSave(st, newId,
                                Checkpoint(ResolvedElements(parsed, restoring, base), plan)),
                   call |-> Call(base.elements, ResolvedElements(parsed, restoring, base))]

-----------------------------------------------------------------------------
(* save_checkpoint on the server.                                          *)

\* The plan of a checkpoint saved without one (plan: undefined).
NoPlan == "undefined"

\* The value JSON.parse returns for the literal null.
Null == [k |-> "null", s |-> <<>>, o |-> <<>>]

\* JSON.parse(data) of the handler: the grammar of JsonParse and the literal null.
SaveParse(data) ==
    IF Trim(data) = <<"null">> THEN ParseOk(Null, Len(data) + 1) ELSE JsonParse(data)

SavedResult == [isError |-> FALSE, kind |-> "ok", id |-> <<>>]

\* existing ? { ...existing, elements: parsed.elements ?? existing.elements }
\*          : { elements: parsed.elements ?? [], plan: undefined }
Merged(existing, els) ==
    IF existing.present
    THEN [existing EXCEPT !.elements = IF els.k = "undefined" THEN @ ELSE Items(els)]
    ELSE Checkpoint(IF els.k = "undefined" THEN <<>> ELSE Items(els), NoPlan)

\* Mutant: the merged checkpoint never carries the plan of the existing one.
SaveCheckpointOutcome_dropPlan(st, id, data) ==
    LET json == SaveParse(data)
    IN
    IF ~json.ok \/ json.v.k = "null"
    THEN [result |-> ErrorResult("save failed", <<>>), store |-> st]
    ELSE [result |-> SavedResult,
          store |-> StoreSave(st, id,
                       [Merged(StoreLoad(st, id), Get(json.v, "elements"))
                           EXCEPT !.plan = NoPlan])]

\* The handler: the result it returns and the store it leaves.  Reading
\* parsed.elements of null throws, which the handler's catch turns into an error.
SaveCheckpointOutcome(st, id, data) ==
    LET json == SaveParse(data)
    IN
    IF Len(data) > MAX_INPUT_BYTES
    THEN [result |-> ErrorResult("too large", <<>>), store |-> st]
    ELSE IF ~json.ok \/ json.v.k = "null"
    THEN [result |-> ErrorResult("save failed", <<>>), store |-> st]
    ELSE [result |-> SavedResult,
          store |-> StoreSave(st, id, Merged(StoreLoad(st, id), Get(json.v, "elements")))]

-----------------------------------------------------------------------------
(* Inputs of the recoverer: element arrays written from a pool of elements *)
(* that covers a flat element, a nested label object, a string holding a   *)
(* closing brace and a nested points array.                                *)

Str(w) == StrVal(<<w>>)

Obj1(k1, v1) == ObjVal(<<Member(<<k1>>, v1)>>)

Obj2(k1, v1, k2, v2) == ObjVal(<<Member(<<k1>>, v1), Member(<<k2>>, v2)>>)

Obj3(k1, v1, k2, v2, k3, v3) ==
    ObjVal(<<Member(<<k1>>, v1), Member(<<k2>>, v2), Member(<<k3>>, v3)>>)

Arr2(v1, v2) == ArrVal(<<Member(<<>>, v1), Member(<<>>, v2)>>)

ParsePool ==
    << Obj1("id", Str("a")),
       Obj2("id", Str("b"), "label", Obj1("text", Str("x"))),
       Obj2("id", Str("c"), "text", Str("}")),
       Obj2("id", Str("d"), "points",
            ArrVal(<<Member(<<>>, Arr2(NumVal(<<"0">>), NumVal(<<"1">>)))>>)) >>

\* All sequences over S of length at most n.
SeqsUpTo(S, n) == UNION {[1..m -> S] : m \in 0..n}

\* The separator written between two elements.
Sep(spaced) == IF spaced THEN <<",", " ">> ELSE <<",">>

RECURSIVE JoinElements(_, _, _)
JoinElements(pool, picks, spaced) ==
    IF picks = <<>> THEN <<>>
    ELSE JsonStringify(pool[Head(picks)])
         \o (IF Len(picks) > 1 THEN Sep(spaced) ELSE <<>>)
         \o JoinElements(pool, Tail(picks), spaced)

\* The text of the complete element array.
ArrayText(pool, picks, spaced) == <<"[">> \o JoinElements(pool, picks, spaced) \o <<"]">>

\* Number of units up to and including the closing brace of element j.
BoundaryAt(pool, picks, spaced, j) ==
    1 + Len(JoinElements(pool, SubSeq(picks, 1, j), spaced))

\* Position of the opening brace of element j.
OpenAt(pool, picks, spaced, j) ==
    IF j = 1 THEN 2
    ELSE BoundaryAt(pool, picks, spaced, j - 1) + Len(Sep(spaced)) + 1

ValuesOf(pool, picks) == [n \in 1..Len(picks) |-> pool[picks[n]]]

FullText == ArrayText(ParsePool, payload.picks, payload.spaced)

-----------------------------------------------------------------------------
(* The widget: DiagramView's resolution passes over one tool invocation.   *)

\* PSEUDO_TYPES.has(el.type)
IsPseudo(el) ==
    TypeIs(el, "cameraUpdate") \/ TypeIs(el, "delete") \/ TypeIs(el, "restoreCheckpoint")

IsNotPseudo(el) == ~IsPseudo(el)

IsNotCamera(el) == ~TypeIs(el, "cameraUpdate")

\* Mutant: a single recovered element is kept instead of dropped.
excludeIncompleteLastItem_keepSingle(arr) ==
    IF Len(arr) = 0 THEN <<>>
    ELSE IF Len(arr) <= 1 THEN arr
    ELSE SubSeq(arr, 1, Len(arr) - 1)

excludeIncompleteLastItem(arr) ==
    IF Len(arr) = 0 THEN <<>>
    ELSE IF Len(arr) <= 1 THEN <<>>
    ELSE SubSeq(arr, 1, Len(arr) - 1)

\* null, the viewport of a pass whose array holds no cameraUpdate.
NoViewport ==
    [has |-> FALSE, x |-> Undefined, y |-> Undefined, width |-> Undefined, height |-> Undefined]

\* { x: el.x, y: el.y, width: el.width, height: el.height }
ViewportOf(el) ==
    [has |-> TRUE, x |-> Get(el, "x"), y |-> Get(el, "y"),
     width |-> Get(el, "width"), height |-> Get(el, "height")]

\* The restore id a loop over elements ends with: each restoreCheckpoint entry
\* assigns its id, so the last assignment stays.
LoopRestoreId(elements) ==
    LET at == {n \in 1..Len(elements) : TypeIs(elements[n], "restoreCheckpoint")}
    IN  IF at = {} THEN Undefined ELSE Get(elements[SetMax(at)], "id")

\* The viewport a loop over elements ends with.
LoopViewport(elements) ==
    LET at == {n \in 1..Len(elements) : TypeIs(elements[n], "cameraUpdate")}
    IN  IF at = {} THEN NoViewport ELSE ViewportOf(elements[SetMax(at)])

\* Mutant: an element named by a delete entry is returned like any other.
extractViewportAndElements_noHide(elements) ==
    [viewport |-> LoopViewport(elements),
     drawElements |-> FilterSeq(elements, IsNotPseudo),
     restoreId |-> LoopRestoreId(elements),
     deleteIds |-> CallDeleteIds(elements)]

extractViewportAndElements(elements) ==
    LET deleteIds == CallDeleteIds(elements)
        drawElements == FilterSeq(elements, IsNotPseudo)
        Hide(el) == IF HasId(deleteIds, Get(el, "id")) \/ HasId(deleteIds, Get(el, "containerId"))
                    THEN ObjSet(el, "opacity", NumVal(<<"1">>))
                    ELSE el
    IN  [viewport |-> LoopViewport(elements),
         drawElements |-> IF deleteIds # {}
                          THEN [n \in 1..Len(drawElements) |-> Hide(drawElements[n])]
                          ELSE drawElements,
         restoreId |-> LoopRestoreId(elements),
         deleteIds |-> deleteIds]

\* The arrays of this model hold no free text element: texts is empty, no
\* text is removed and no shape receives a label.
mergeGroupTitleTextIntoShapes(elements) == elements

\* convertToExcalidrawElements keeps the ids (regenerateIds: false); a
\* converted text gets the Helvetica font family, every converted element
\* gets roughness 0, and the pseudo-elements follow the converted ones
\* unchanged.
convertRawElements(els) ==
    LET real == FilterSeq(els, IsNotPseudo)
        Font(el) == IF TypeIs(el, "text") THEN ObjSet(el, "fontFamily", Str("Helvetica"))
                    ELSE el
    IN  [n \in 1..Len(real) |-> ObjSet(Font(real[n]), "roughness", NumVal(<<"0">>))]
        \o FilterSeq(els, IsPseudo)

\* What loadCheckpoint resolves to: null, or the elements of the checkpoint
\* after read_checkpoint's JSON.stringify and the widget's JSON.parse.
NoSaved == [has |-> FALSE, elements |-> <<>>]

LoadCheckpoint(st, id) ==
    IF id.k # "str" \/ ~StoreLoad(st, id.s).present THEN NoSaved
    ELSE LET data == StoreLoad(st, id.s).elements
             text == JsonStringify(ArrVal([n \in 1..Len(data) |-> Member(<<>>, data[n])]))
         IN  [has |-> TRUE, elements |-> Items(JsonParse(text).v)]

\* base: undefined, or an element array.
NoBase == [has |-> FALSE, els |-> <<>>]

Base(els) == [has |-> TRUE, els |-> els]

\* base.find(el => el.type === "cameraUpdate") as the fallback viewport.
FallbackViewport(viewport, base) ==
    LET at == {n \in 1..Len(base.els) : TypeIs(base.els[n], "cameraUpdate")}
    IN  IF ~viewport.has /\ base.has /\ at # {}
        THEN ViewportOf(base.els[SetMin(at)])
        ELSE viewport

\* base.filter(el => !deleteIds.has(el.id) && !deleteIds.has(el.containerId))
FilterBase(base, deleteIds) ==
    IF base.has /\ deleteIds # {} THEN Base(BaseFiltered(base.els, deleteIds)) ELSE base

\* [...baseReal, ...convertedNew]: the elements renderSvgPreview exports.
RenderInput(els, base) ==
    (IF base.has THEN FilterSeq(base.els, IsNotCamera) ELSE <<>>) \o convertRawElements(els)

\* renderSvgPreview returns at once when there is nothing to draw.
RenderSkipped(els, base) == Len(els) = 0 /\ ~(base.has /\ Len(base.els) > 0)

\* What the SVG shows, or what the scene bounds were computed from: nothing
\* yet, or the element list of one render.
NoScene == [has |-> FALSE, els |-> <<>>]

Scene(els) == [has |-> TRUE, els |-> els]

\* A resolution pass: which path started it, where it is suspended, and the
\* locals it holds there.
DonePass ==
    [kind |-> "none", pc |-> "done", draw |-> <<>>, viewport |-> NoViewport,
     rid |-> Undefined, dels |-> {}, base |-> NoBase, out |-> <<>>]

LoadingPass(kind, draw, viewport, rid, dels) ==
    [kind |-> kind, pc |-> "load", draw |-> draw, viewport |-> viewport,
     rid |-> rid, dels |-> dels, base |-> NoBase, out |-> <<>>]

FontsPass(kind, els, viewport, base) ==
    [kind |-> kind, pc |-> "fonts", draw |-> els, viewport |-> viewport,
     rid |-> Undefined, dels |-> {}, base |-> base, out |-> <<>>]

ExportPass(kind, els, viewport, base) ==
    [kind |-> kind, pc |-> "export", draw |-> <<>>, viewport |-> viewport,
     rid |-> Undefined, dels |-> {}, base |-> NoBase, out |-> RenderInput(els, base)]

\* renderSvgPreview(els, viewport, base) up to its first suspension: the pass
\* it leaves behind and the scene bounds it wrote, if it got that far.
StartRender(kind, els, viewport, base, loaded, bounds) ==
    IF RenderSkipped(els, base) THEN [pass |-> DonePass, bounds |-> bounds]
    ELSE IF loaded
    THEN [pass |-> ExportPass(kind, els, viewport, base), bounds |-> Scene(RenderInput(els, base))]
    ELSE [pass |-> FontsPass(kind, els, viewport, base), bounds |-> bounds]

\* doStream from the point where the checkpoint is available (or was not
\* needed) to the next suspension.
StreamContinue(p, rref, latest, loaded, bounds) ==
    LET base0 == IF Truthy(p.rid) /\ rref.has THEN Base(rref.elements) ELSE NoBase
        viewport == IF Truthy(p.rid) THEN FallbackViewport(p.viewport, base0) ELSE p.viewport
        base == IF Truthy(p.rid) THEN FilterBase(base0, p.dels) ELSE base0
    IN  IF Len(p.draw) > 0 /\ Len(p.draw) # Len(latest)
        THEN [latest |-> p.draw] @@ StartRender("stream", p.draw, viewport, base, loaded, bounds)
        ELSE IF base.has /\ Len(base.els) > 0 /\ Len(latest) = 0
        THEN [latest |-> latest] @@ StartRender("stream", <<>>, viewport, base, loaded, bounds)
        ELSE [latest |-> latest, pass |-> DonePass, bounds |-> bounds]

\* The base and viewport doFinal resolves from what loadCheckpoint returned.
FinalBase(p, saved) ==
    IF saved.has THEN FilterBase(Base(convertRawElements(saved.elements)), p.dels) ELSE NoBase

FinalViewport(p, saved) ==
    IF saved.has THEN FallbackViewport(p.viewport, Base(saved.elements)) ELSE p.viewport

\* doFinal from the point where the checkpoint is available (or was not
\* needed) to the next suspension.
FinalContinue(p, saved, loaded, bounds) ==
    [latest |-> p.draw]
    @@ StartRender("final", p.draw, FinalViewport(p, saved), FinalBase(p, saved), loaded, bounds)

\* The entries a streamed element array is made of: two shapes, a delete entry
\* naming a base element and a new one, two cameras, two restore entries.
WidgetPool ==
    << Obj2("type", Str("rectangle"), "id", Str("b")),
       Obj2("type", Str("ellipse"), "id", Str("d")),
       Obj2("type", Str("delete"), "ids", StrVal(<<"a", ",", "b">>)),
       Obj2("type", Str("cameraUpdate"), "x", NumVal(<<"1">>)),
       Obj2("type", Str("cameraUpdate"), "x", NumVal(<<"2">>)),
       Obj2("type", Str("restoreCheckpoint"), "id", Str("k1")),
       Obj2("type", Str("restoreCheckpoint"), "id", Str("k2")) >>

\* What follows the restore entries of an invocation: nothing, shapes, shapes
\* after two cameras, a shape deleted again, a delete before a shape.
WidgetBodies == {<<>>, <<1>>, <<1, 2>>, <<4, 1, 5, 2>>, <<1, 3, 2>>, <<3, 1>>}

WidgetRestores == {<<>>, <<6>>, <<6, 7>>, <<7, 6>>}

\* The checkpoints the server holds while the invocation streams: k1 with a
\* shape, a text bound to it and two cameras, k2 with one shape.
WidgetStore ==
    (<<"k1">> :> Checkpoint(<< Obj2("type", Str("rectangle"), "id", Str("a")),
                               Obj3("type", Str("text"), "id", Str("t"), "containerId", Str("a")),
                               Obj2("type", Str("cameraUpdate"), "x", NumVal(<<"3">>)),
                               Obj2("type", Str("cameraUpdate"), "x", NumVal(<<"4">>)) >>, "p1"))
    @@ (<<"k2">> :> Checkpoint(<< Obj2("type", Str("rectangle"), "id", Str("c")) >>, "p1"))

\* The invocations: the final elements text is the array of picks, without
\* its closing bracket when the invocation is not closed.
WidgetInputs ==
    [picks : {pre \o body : pre \in WidgetRestores, body \in WidgetBodies},
     closed : {TRUE}]
    \cup [picks : {pre \o body : pre \in {<<>>, <<6>>}, body \in {<<1>>, <<1, 2>>}},
          closed : {FALSE}]

WidgetText == ArrayText(WidgetPool, winput.picks, FALSE)

\* The elements text of a partial frame holding the first j entries.
FrameText(j) == SubSeq(WidgetText, 1, BoundaryAt(WidgetPool, winput.picks, FALSE, j))

\* The elements text of the final payload.
FinalText == IF winput.closed THEN WidgetText ELSE SubSeq(WidgetText, 1, Len(WidgetText) - 1)

NoRestored == [has |-> FALSE, id |-> Undefined, elements |-> <<>>]

NoFrame ==
    [kind |-> "none", parsed |-> <<>>, safe |-> <<>>, rid |-> Undefined, draw |-> <<>>]

\* const defaultVP = { x: 0, y: 0, width: 1024, height: 768 }
DefaultVP ==
    [has |-> TRUE, x |-> NumVal(<<"0">>), y |-> NumVal(<<"0">>),
     width |-> NumVal(<<"1", "0", "2", "4">>), height |-> NumVal(<<"7", "6", "8">>)]

WidgetIdle ==
    /\ winput = [picks |-> <<>>, closed |-> TRUE]
    /\ wcut = 0
    /\ chunks = 0
    /\ wfinal = FALSE
    /\ passes = <<>>
    /\ fontsLoaded = FALSE
    /\ fontsQueue = <<>>
    /\ latestRef = <<>>
    /\ restoredRef = NoRestored
    /\ shown = NoScene
    /\ sceneBounds = NoScene
    /\ targetVP = NoViewport
    /\ animatedVP = NoViewport
    /\ lastFrame = NoFrame

\* No scene is in the normalization pipeline.
GeomStages == 8

GeomIdle ==
    /\ ginput = <<>>
    /\ gscene = <<>>
    /\ gprev = <<>>
    /\ gstage = GeomStages
    /\ gfresh = 0
    /\ gfirst = <<>>
    /\ graw = <<>>

\* A viewport of the camera: its fields are integers, thousandths of a pixel.
NoCam == [has |-> FALSE, x |-> 0, y |-> 0, width |-> 0, height |-> 0]

NoViewBox == [has |-> FALSE, vp |-> NoCam, bounds |-> 0]

NoStep == [step |-> "none", viewport |-> NoCam, animated |-> NoCam, pending |-> FALSE]

NoFirst == [has |-> FALSE, snapped |-> FALSE]

NoFailure == [has |-> FALSE, frame |-> 0, boundsBefore |-> 0]

\* The refs of a component that has rendered nothing; idle when unmounted.
CameraFresh ==
    /\ camAnimated = NoCam
    /\ camTarget = NoCam
    /\ rafPending = {}
    /\ animFrameRef = 0
    /\ exporting = <<>>
    /\ renders = 0
    /\ boundsOf = 0
    /\ svgImage = 0
    /\ viewBox = NoViewBox
    /\ camLast = NoStep
    /\ camFirst = NoFirst
    /\ exportFailed = NoFailure

CameraIdle == CameraFresh /\ svgMounted = FALSE

\* The elements state: empty, the user's edits (pass 0) or the scene of a final pass.
NoElements == [from |-> "empty", pass |-> 0]

\* No final pass has finished.
NoFinalStep == [pass |-> 0, hadEdits |-> FALSE, setElements |-> FALSE, rendered |-> FALSE]

AppIdle ==
    /\ userEdits = "null"
    /\ appElements = NoElements
    /\ displayMode = "inline"
    /\ latestEdited = FALSE
    /\ finals = <<>>
    /\ preview = 0
    /\ appLast = NoFinalStep

-----------------------------------------------------------------------------
(* The recoverer applied to every prefix of a streamed element array.      *)

ParseIdle ==
    /\ payload = [picks |-> <<>>, spaced |-> FALSE]
    /\ cut = 0
    /\ recovered = <<>>
    /\ strict = ParseFail
    /\ pstep = "idle"

NoRequest == [picks |-> <<>>, closed |-> TRUE, plan |-> ""]

ServerIdle ==
    /\ store = EmptyStore
    /\ prevStore = EmptyStore
    /\ minted = 0
    /\ req = NoRequest
    /\ result = NoResult
    /\ call = NoCall
    /\ edit = NoEdit
    /\ idem = NoRepeat

ParseInit ==
    /\ payload \in [picks : SeqsUpTo(1..Len(ParsePool), MaxEls), spaced : BOOLEAN]
    /\ cut = 0
    /\ recovered = <<>>
    /\ strict = ParseFail
    /\ pstep = "idle"
    /\ ServerIdle
    /\ WidgetIdle
    /\ GeomIdle
    /\ AppIdle
    /\ CameraIdle

\* A chunk arrives: the text grows to c units and is recovered.
ReceiveChunk(c) ==
    /\ cut' = c
    /\ recovered' = parsePartialElements(SubSeq(FullText, 1, c))
    /\ strict' = JsonParse(SubSeq(FullText, 1, c))
    /\ pstep' = "done"
    /\ UNCHANGED payload
    /\ UNCHANGED <<serverVars, widgetVars, geomVars, cameraVars, appVars>>

ParseNext == \E c \in (cut + 1)..Len(FullText) : ReceiveChunk(c)

SpecParse == ParseInit /\ [][ParseNext]_vars

-----------------------------------------------------------------------------
(* The server: create_view calls on an initially empty store.  A call's  *)
(* element array starts with its restore entries (none, one, two with      *)
(* different ids, or one without an id), followed by entries               *)
(* from a pool holding two shapes, a text bound to the first shape, two    *)
(* delete entries and a camera.                                            *)
(***************************************************************************)

ServerPool ==
    << Obj2("type", Str("rectangle"), "id", Str("a")),
       Obj3("type", Str("text"), "id", Str("t"), "containerId", Str("a")),
       Obj2("type", Str("rectangle"), "id", Str("c")),
       Obj2("type", Str("delete"), "ids", Str("a")),
       Obj2("type", Str("delete"), "ids", StrVal(<<" ", "t", " ", ",", "x">>)),
       Obj2("type", Str("cameraUpdate"), "x", NumVal(<<"1">>)),
       Obj2("type", Str("restoreCheckpoint"), "id", Str("k1")),
       Obj2("type", Str("restoreCheckpoint"), "id", Str("k2")),
       Obj1("type", Str("restoreCheckpoint")) >>

BodyPicks == 1..6

RestorePrefixes == {<<>>, <<7>>, <<8>>, <<7, 8>>, <<8, 7>>}

\* Calls whose restoreCheckpoint entry carries no id, alone or before a shape
\* or a delete entry.
IdlessPicks == {<<9>>, <<9, 1>>, <<9, 4>>}

Plans == {"p1"}

\* The elements argument of a request: the array text, without its closing
\* bracket when the request is not closed (text that is not parseable JSON).
RequestText(r) ==
    LET full == ArrayText(ServerPool, r.picks, FALSE)
    IN  IF r.closed THEN full ELSE SubSeq(full, 1, Len(full) - 1)

RequestPicks(n) == {pre \o body : pre \in RestorePrefixes, body \in SeqsUpTo(BodyPicks, n)}

Requests ==
    [picks : RequestPicks(MaxBodyEls), closed : {TRUE}, plan : Plans]
    \cup [picks : RequestPicks(1), closed : {FALSE}, plan : Plans]
    \cup [picks : IdlessPicks, closed : {TRUE}, plan : Plans]

ServerInit == ParseIdle /\ ServerIdle /\ WidgetIdle /\ GeomIdle /\ CameraIdle /\ AppIdle

\* One create_view call, from its arguments to its result.
CreateView(r) ==
    /\ result = NoResult
    /\ minted < Len(GeneratedIds)
    /\ LET out == CreateViewOutcome(store, RequestText(r), r.plan, <<GeneratedIds[minted + 1]>>)
       IN  /\ store' = out.store
           /\ result' = out.result
           /\ call' = out.call
           /\ minted' = IF out.result.isError THEN minted ELSE minted + 1
    /\ prevStore' = store
    /\ req' = r
    /\ UNCHANGED <<edit, idem>>
    /\ UNCHANGED <<parseVars, widgetVars, geomVars, cameraVars, appVars>>

\* The result has been handed to the caller; the server waits for the next call.
Respond ==
    /\ result # NoResult
    /\ result' = NoResult
    /\ call' = NoCall
    /\ req' = NoRequest
    /\ prevStore' = store
    /\ UNCHANGED <<store, minted, edit, idem>>
    /\ UNCHANGED <<parseVars, widgetVars, geomVars, cameraVars, appVars>>

ServerNext ==
    \/ \E r \in Requests : CreateView(r)
    \/ Respond

SpecServer == ServerInit /\ [][ServerNext]_vars

-----------------------------------------------------------------------------
(* The widget over one invocation streamed against a fixed store.       *)

WidgetInit ==
    /\ winput \in WidgetInputs
    /\ wcut = 0
    /\ chunks = 0
    /\ wfinal = FALSE
    /\ passes = <<>>
    /\ fontsLoaded = FALSE
    /\ fontsQueue = <<>>
    /\ latestRef = <<>>
    /\ restoredRef = NoRestored
    /\ shown = NoScene
    /\ sceneBounds = NoScene
    /\ targetVP = NoViewport
    /\ animatedVP = NoViewport
    /\ lastFrame = NoFrame
    /\ ParseIdle
    /\ store = WidgetStore
    /\ prevStore = WidgetStore
    /\ minted = 0
    /\ req = NoRequest
    /\ result = NoResult
    /\ call = NoCall
    /\ edit = NoEdit
    /\ idem = NoRepeat
    /\ GeomIdle
    /\ AppIdle
    /\ CameraIdle

\* A pass has reached its next suspension (or its end): it takes its place in
\* passes[i], and in the queue of the font promise if it waits there.
Suspend(i, go) ==
    /\ passes' = IF i > Len(passes) THEN Append(passes, go.pass)
                 ELSE [passes EXCEPT ![i] = go.pass]
    /\ fontsQueue' = IF go.pass.pc = "fonts" THEN Append(fontsQueue, i) ELSE fontsQueue
    /\ latestRef' = go.latest
    /\ sceneBounds' = go.bounds

\* The partial path of the effect over the recovered array of a frame, up to
\* the first suspension of doStream.
StreamFrame(parsed) ==
    LET streamRestoreId == LoopRestoreId(parsed)
        streamDeleteIds == CallDeleteIds(parsed)
        safe == excludeIncompleteLastItem(parsed)
        ex == extractViewportAndElements(safe)
        drawElements == mergeGroupTitleTextIntoShapes(ex.drawElements)
        p == LoadingPass("stream", drawElements, ex.viewport, streamRestoreId, streamDeleteIds)
        mustLoad == /\ Truthy(streamRestoreId)
                    /\ (~restoredRef.has \/ restoredRef.id # streamRestoreId)
    IN  /\ lastFrame' = [kind |-> "stream", parsed |-> parsed, safe |-> safe,
                         rid |-> streamRestoreId, draw |-> ex.drawElements]
        /\ IF mustLoad
           THEN Suspend(Len(passes) + 1,
                        [pass |-> p, latest |-> latestRef, bounds |-> sceneBounds])
           ELSE Suspend(Len(passes) + 1,
                        StreamContinue(p, restoredRef, latestRef, fontsLoaded, sceneBounds))

\* ontoolinputpartial delivers a frame holding the first j entries: the effect
\* runs its partial path, and doStream runs to its first suspension.
DeliverPartial(j) ==
    /\ ~wfinal
    /\ chunks < MaxChunks
    /\ StreamFrame(parsePartialElements(FrameText(j)))
    /\ wcut' = j
    /\ chunks' = chunks + 1
    /\ UNCHANGED <<winput, wfinal, fontsLoaded, restoredRef, shown, targetVP, animatedVP>>
    /\ UNCHANGED <<parseVars, serverVars, geomVars, cameraVars, appVars>>

\* The final path of the effect over the recovered array of the payload, up
\* to the first suspension of doFinal.
FinalFrame(parsed) ==
    LET ex == extractViewportAndElements(parsed)
        drawElements == mergeGroupTitleTextIntoShapes(ex.drawElements)
        p == LoadingPass("final", drawElements, ex.viewport, ex.restoreId, ex.deleteIds)
    IN  /\ lastFrame' = [kind |-> "final", parsed |-> parsed, safe |-> parsed,
                         rid |-> ex.restoreId, draw |-> ex.drawElements]
        /\ IF Truthy(ex.restoreId)
           THEN Suspend(Len(passes) + 1,
                        [pass |-> p, latest |-> latestRef, bounds |-> sceneBounds])
           ELSE Suspend(Len(passes) + 1,
                        FinalContinue(p, NoSaved, fontsLoaded, sceneBounds))

\* ontoolinput delivers the final payload: the effect runs its final path, and
\* doFinal runs to its first suspension.
DeliverFinal ==
    /\ ~wfinal
    /\ FinalFrame(parsePartialElements(FinalText))
    /\ wfinal' = TRUE
    /\ UNCHANGED <<winput, wcut, chunks, fontsLoaded, restoredRef, shown, targetVP, animatedVP>>
    /\ UNCHANGED <<parseVars, serverVars, geomVars, cameraVars, appVars>>

\* The checkpoint load of pass i resolves; the pass runs on to its next
\* suspension.  Loads resolve in any order.
LoadDone(i) ==
    /\ passes[i].pc = "load"
    /\ LET p == passes[i]
           saved == LoadCheckpoint(store, p.rid)
           rref == IF saved.has
                   THEN [has |-> TRUE, id |-> p.rid,
                         elements |-> convertRawElements(saved.elements)]
                   ELSE restoredRef
       IN  IF p.kind = "stream"
           THEN /\ restoredRef' = rref
                /\ Suspend(i, StreamContinue(p, rref, latestRef, fontsLoaded, sceneBounds))
           ELSE /\ restoredRef' = restoredRef
                /\ Suspend(i, FinalContinue(p, saved, fontsLoaded, sceneBounds))
    /\ UNCHANGED <<winput, wcut, chunks, wfinal, fontsLoaded, shown, targetVP, animatedVP,
                   lastFrame>>
    /\ UNCHANGED <<parseVars, serverVars, geomVars, cameraVars, appVars>>

\* The font promise resolves: the passes waiting on it resume in the order in
\* which they started to wait, each converting its elements, writing the
\* scene bounds and calling exportToSvg.
FontsLoad ==
    /\ ~fontsLoaded
    /\ fontsQueue # <<>>
    /\ fontsLoaded' = TRUE
    /\ passes' = [i \in 1..Len(passes) |->
                    IF passes[i].pc = "fonts"
                    THEN ExportPass(passes[i].kind, passes[i].draw, passes[i].viewport,
                                    passes[i].base)
                    ELSE passes[i]]
    /\ sceneBounds' = LET last == passes[fontsQueue[Len(fontsQueue)]]
                      IN  Scene(RenderInput(last.draw, last.base))
    /\ fontsQueue' = <<>>
    /\ UNCHANGED <<winput, wcut, chunks, wfinal, latestRef, restoredRef, shown, targetVP,
                   animatedVP, lastFrame>>
    /\ UNCHANGED <<parseVars, serverVars, geomVars, cameraVars, appVars>>

\* exportToSvg of pass i resolves: the pass writes the SVG and the camera
\* target.  Exports resolve in any order.
ExportDone(i) ==
    /\ passes[i].pc = "export"
    /\ shown' = Scene(passes[i].out)
    /\ targetVP' = passes[i].viewport
    /\ animatedVP' = IF animatedVP.has THEN animatedVP
                     ELSE IF passes[i].viewport.has THEN passes[i].viewport
                     ELSE DefaultVP
    /\ passes' = [passes EXCEPT ![i] = DonePass]
    /\ UNCHANGED <<winput, wcut, chunks, wfinal, fontsLoaded, fontsQueue, latestRef,
                   restoredRef, sceneBounds, lastFrame>>
    /\ UNCHANGED <<parseVars, serverVars, geomVars, cameraVars, appVars>>

WidgetNext ==
    \/ \E j \in (wcut + 1)..Len(winput.picks) : DeliverPartial(j)
    \/ DeliverFinal
    \/ \E i \in 1..Len(passes) : LoadDone(i)
    \/ FontsLoad
    \/ \E i \in 1..Len(passes) : ExportDone(i)

SpecWidget == WidgetInit /\ [][WidgetNext]_vars

-----------------------------------------------------------------------------
(* Claims about the recoverer *)

Picks == payload.picks

Boundary(j) == BoundaryAt(ParsePool, Picks, payload.spaced, j)

Open(j) == OpenAt(ParsePool, Picks, payload.spaced, j)

\* C6: for a prefix of a valid element array that ends right after the closing
\* brace of top-level element j, or after the closing bracket of the complete
\* array, parsePartialElements returns exactly the elements completed so far,
\* in order.
C6_RecoverAtBoundary ==
    pstep = "done" =>
        /\ \A j \in 1..Len(Picks) :
              cut = Boundary(j) => recovered = ValuesOf(ParsePool, SubSeq(Picks, 1, j))
        /\ cut = Len(FullText) => recovered = ValuesOf(ParsePool, Picks)

\* C6 witness: a prefix ending right after the first of two elements, the first
\* holding a nested label object, has been recovered.
C6_Witness ==
    /\ pstep = "done"
    /\ Len(Picks) = 2
    /\ Picks[1] = 2
    /\ cut = Boundary(1)
    /\ Len(recovered) = 1

\* C7: for a prefix cut strictly inside element k (from its opening brace up to
\* just before its closing brace), parsePartialElements returns the k-1
\* preceding complete elements.
C7_CutInsideLast ==
    pstep = "done" =>
        \A k \in 1..Len(Picks) :
            (Open(k) <= cut /\ cut < Boundary(k))
                => recovered = ValuesOf(ParsePool, SubSeq(Picks, 1, k - 1))

-----------------------------------------------------------------------------
(* Claims about create_view *)

ReqValues == ValuesOf(ServerPool, req.picks)

Answered == result # NoResult

Succeeded == Answered /\ ~result.isError

RestorePicks == {n \in 1..Len(req.picks) : req.picks[n] \in {7, 8}}

\* The id of the call's first restore entry.
FirstRestoreId == IF req.picks[SetMin(RestorePicks)] = 7 THEN <<"k1">> ELSE <<"k2">>

\* D: the ids named by the delete entries of the call (entry 4 names a, entry 5
\* names t and x).
NamedByDeletes ==
    (IF \E n \in 1..Len(req.picks) : req.picks[n] = 4 THEN {<<"a">>} ELSE {})
    \cup (IF \E n \in 1..Len(req.picks) : req.picks[n] = 5 THEN {<<"t">>, <<"x">>} ELSE {})

NamedIn(el, member) == Get(el, member).k = "str" /\ Get(el, member).s \in NamedByDeletes

SurvivesDeletes(el) == ~NamedIn(el, "id") /\ ~NamedIn(el, "containerId")

\* resolvedElements, the scene the call passed to store.save.
Saved == call.resolved

\* The elements of the base store.load returned.
Loaded == call.base

PicksOf(kinds) == PickSeq(ReqValues, {n \in 1..Len(req.picks) : req.picks[n] \in kinds})

\* C2 as claimed: a restoring call saves the base elements that survive the
\* deletes, in base order, followed by the call's drawable elements in input
\* order.
C2_Original ==
    (Succeeded /\ RestorePicks # {}) =>
        Saved = FilterSeq(Loaded, SurvivesDeletes) \o PicksOf({1, 2, 3})

\* C2: a restoring call saves the base elements b with b.id and b.containerId
\* not named by a delete entry, in base order, followed by the call's entries
\* other than restoreCheckpoint and delete entries (its drawable elements and
\* its cameraUpdate entries) in input order.
C2_RestoreResolution ==
    (Succeeded /\ RestorePicks # {}) =>
        Saved = FilterSeq(Loaded, SurvivesDeletes) \o PicksOf({1, 2, 3, 6})

\* C2 witness: base [a, t], restored with a delete of t and a new shape c,
\* has been resolved to [a, c].
C2_Witness ==
    /\ Succeeded
    /\ req.picks = <<7, 5, 3>>
    /\ Loaded = <<ServerPool[1], ServerPool[2]>>
    /\ Saved = <<ServerPool[1], ServerPool[3]>>

\* C3: after a successful call the saved elements hold no element whose id or
\* containerId is named by a delete entry of the call.
C3_SavedIsPostDeletion ==
    Succeeded => \A n \in 1..Len(Saved) : SurvivesDeletes(Saved[n])

\* C4: a call whose elements text is not parseable JSON, or whose restore id is
\* not in the store, returns an error (naming the JSON error, respectively the
\* missing id) and leaves every checkpoint of the store as it was.
C4_ErrorsWriteNothing ==
    Answered =>
        /\ ~req.closed =>
              /\ result = ErrorResult("invalid json", <<>>)
              /\ store = prevStore
        /\ (req.closed /\ RestorePicks # {} /\ ~prevStore[FirstRestoreId].present) =>
              /\ result = ErrorResult("not found", FirstRestoreId)
              /\ store = prevStore

\* C4 witness: a call restoring k2 while only k1 is stored has been rejected.
C4_Witness ==
    /\ Answered
    /\ req.closed
    /\ req.picks = <<8, 1>>
    /\ prevStore[<<"k1">>].present
    /\ result.isError

\* C5: a successful call saves exactly one checkpoint, under an id that was not
\* in the store, returns that id, and leaves every other checkpoint unchanged.
C5_OneFreshCheckpoint ==
    Succeeded =>
        /\ result.id \in StoreKeys
        /\ ~prevStore[result.id].present
        /\ store[result.id].present
        /\ store[result.id] = Checkpoint(call.resolved, req.plan)
        /\ \A id \in StoreKeys \ {result.id} : store[id] = prevStore[id]

\* C5 witness: a successful call that restored k1 has saved k2 beside it.
C5_Witness ==
    /\ Succeeded
    /\ RestorePicks # {}
    /\ prevStore[<<"k1">>].present
    /\ result.id = <<"k2">>
    /\ store[<<"k1">>].present

FirstRestoreHasNoId == \E n \in 1..Len(req.picks) : req.picks[n] = 9

InLoaded(el) == \E n \in 1..Len(Loaded) : Loaded[n] = el

-----------------------------------------------------------------------------
(* Claims about the widget's passes *)

AllPassesDone == \A i \in 1..Len(passes) : passes[i].pc = "done"

\* The final payload was delivered and every pass started has completed.
Settled == wfinal /\ AllPassesDone

\* What the final path resolves from the final payload and the store.
FinalExtract == extractViewportAndElements(parsePartialElements(FinalText))

FinalLocals ==
    LoadingPass("final", mergeGroupTitleTextIntoShapes(FinalExtract.drawElements),
                FinalExtract.viewport, FinalExtract.restoreId, FinalExtract.deleteIds)

FinalSaved ==
    IF Truthy(FinalExtract.restoreId) THEN LoadCheckpoint(store, FinalExtract.restoreId)
    ELSE NoSaved

FinalRendered == ~RenderSkipped(FinalLocals.draw, FinalBase(FinalLocals, FinalSaved))

FinalScene ==
    IF FinalRendered
    THEN Scene(RenderInput(FinalLocals.draw, FinalBase(FinalLocals, FinalSaved)))
    ELSE NoScene

FinalTarget == IF FinalRendered THEN FinalViewport(FinalLocals, FinalSaved) ELSE NoViewport

\* C1: once the final payload has been delivered and every pass started for the
\* invocation has run to completion, the scene shown and the camera target are
\* those resolved from the final payload, whatever the order in which the
\* passes' loads and exports completed.
C1_FinalSceneWins == Settled => (shown = FinalScene /\ targetVP = FinalTarget)

\* The entries the last frame held: the first wcut on a partial frame, all of
\* them on the final payload.
FrameEntries ==
    ValuesOf(WidgetPool, IF lastFrame.kind = "final" THEN winput.picks
                         ELSE SubSeq(winput.picks, 1, wcut))

\* C8 as claimed: on a partial frame with n recovered elements, the first n-1
\* are passed on when n >= 2, and all n when n < 2.
C8_Original ==
    lastFrame.kind = "stream" =>
        /\ lastFrame.parsed = FrameEntries
        /\ lastFrame.safe = IF wcut >= 2 THEN SubSeq(FrameEntries, 1, wcut - 1)
                            ELSE FrameEntries

\* C8: on a partial frame with n recovered elements, the first n-1 are passed
\* on when n >= 1 and none when n = 0: the last completed element is always
\* dropped, a single recovered element included.
C8_DropLast ==
    lastFrame.kind = "stream" =>
        /\ lastFrame.parsed = FrameEntries
        /\ lastFrame.safe = SubSeq(FrameEntries, 1, Len(FrameEntries) - 1)

\* C8 witness: a partial frame with one recovered element has passed on none.
C8_Witness ==
    /\ lastFrame.kind = "stream"
    /\ Len(lastFrame.parsed) = 1
    /\ lastFrame.safe = <<>>

\* C9: the final payload is not subject to the drop-last rule and is parsed
\* strictly: every element of a valid final payload is used, and a final text
\* that is not a complete valid JSON array yields no elements.
C9_FinalParsedStrictly ==
    lastFrame.kind = "final" =>
        lastFrame.safe = IF JsonParse(FinalText).ok THEN FrameEntries ELSE <<>>

RestoreEntries == {n \in 1..Len(FrameEntries) : TypeIs(FrameEntries[n], "restoreCheckpoint")}

\* C10: when the array of a frame holds restoreCheckpoint entries, the restore
\* id the widget uses, on the streaming path and on the final path, is the id
\* of the first of them.
C10_FirstRestoreWins ==
    (lastFrame.kind # "none" /\ RestoreEntries # {}) =>
        lastFrame.rid = Get(FrameEntries[SetMin(RestoreEntries)], "id")

-----------------------------------------------------------------------------
(* Claims about the extractor *)

\* The array the last run of the effect handed to extractViewportAndElements.
Extracted == lastFrame.safe

\* The ids the delete entry of the pool names, when the array holds it.
NamedInFrame ==
    IF \E n \in 1..Len(Extracted) : Extracted[n] = WidgetPool[3]
    THEN {<<"a">>, <<"b">>} ELSE {}

-----------------------------------------------------------------------------
(* The geometry normalization pipeline of the widget.                      *)
(*                                                                         *)
(* A converted element is the record                                       *)
(*   [id, type, x, y, width, height, points, startBinding, endBinding,     *)
(*    boundElements, groupIds, startArrowhead, endArrowhead].              *)
(* points is <<>> when the element has no points field; boundElements and  *)
(* groupIds are <<>> when the field is missing (the code reads both with   *)
(* ?? []); a binding is [has, elementId, fixedPoint] with has = FALSE for  *)
(* a missing or null binding and fixedPoint in halves (<<0, 1>> is         *)
(* [0, 0.5]); an arrowhead is [k, v] with k one of "undefined", "null",    *)
(* "string".  A group id is a natural number: the n-th value returned by   *)
(* crypto.randomUUID() is n, and 0 is an id the input already carries.     *)

MaxScene == 4

CONTAINER_SHAPES == {"rectangle", "diamond", "ellipse"}

HAS_BOUNDS == {"rectangle", "diamond", "ellipse", "arrow", "text", "line"}

BINDABLE_SHAPES == {"rectangle", "diamond", "ellipse"}

MAX_BINDING_DIST == 80

NoArrowhead == [k |-> "undefined", v |-> ""]

NullArrowhead == [k |-> "null", v |-> ""]

Arrowhead(v) == [k |-> "string", v |-> v]

NoBinding == [has |-> FALSE, elementId |-> "", fixedPoint |-> <<0, 0>>]

Binding(id, fp) == [has |-> TRUE, elementId |-> id, fixedPoint |-> fp]

ArrowRef(id) == [type |-> "arrow", id |-> id]

\* PSEUDO_TYPES.has(el.type) on a converted element
IsPseudoType(el) == el.type \in {"cameraUpdate", "delete", "restoreCheckpoint"}

\* el.type === "arrow" || el.type === "line"
IsArrowOrLine(el) == el.type \in {"arrow", "line"}

Abs(n) == IF n < 0 THEN -n ELSE n

Max3(a, b, c) ==
    IF a >= b /\ a >= c THEN a ELSE IF b >= c THEN b ELSE c

NoBounds == [has |-> FALSE, x |-> 0, y |-> 0, right |-> 0, bottom |-> 0]

elementBounds(el) ==
    IF el.width <= 0 \/ el.height <= 0
    THEN NoBounds
    ELSE [has |-> TRUE, x |-> el.x, y |-> el.y,
          right |-> el.x + el.width, bottom |-> el.y + el.height]

isFullyInside(inner, outer) ==
    /\ inner.x >= outer.x
    /\ inner.y >= outer.y
    /\ inner.right <= outer.right
    /\ inner.bottom <= outer.bottom

\* The attachment point in halves; the centre is compared doubled.
fixedPointForPoint(px, py, el) ==
    LET cx2 == el.x + (el.x + el.width)
        cy2 == el.y + (el.y + el.height)
        dx2 == Abs(2 * px - cx2)
        dy2 == Abs(2 * py - cy2)
    IN  IF dx2 > dy2
        THEN (IF 2 * px < cx2 THEN <<0, 1>> ELSE <<2, 1>>)
        ELSE (IF 2 * py < cy2 THEN <<1, 0>> ELSE <<1, 2>>)

\* The square of the distance the code returns: Math.sqrt is increasing, so
\* the order of two distances is the order of their squares.
distToRect(px, py, el) ==
    LET dx == Max3(el.x - px, 0, px - (el.x + el.width))
        dy == Max3(el.y - py, 0, py - (el.y + el.height))
    IN  dx * dx + dy * dy

WithinBindingDist_always(d2) == TRUE

\* best.d <= MAX_BINDING_DIST, on the square of the distance
WithinBindingDist(d2) == d2 <= MAX_BINDING_DIST * MAX_BINDING_DIST

\* el.points ?? [[0, 0], [el.width ?? 0, el.height ?? 0]]
PointsOf(el) ==
    IF el.points = <<>> THEN <<<<0, 0>>, <<el.width, el.height>>>> ELSE el.points

StartPoint(el) ==
    [x |-> el.x + PointsOf(el)[1][1], y |-> el.y + PointsOf(el)[1][2]]

EndPoint(el) ==
    LET pts == PointsOf(el)
    IN  [x |-> el.x + pts[Len(pts)][1], y |-> el.y + pts[Len(pts)][2]]

Bindable(elements) == SelectSeq(elements, LAMBDA el : el.type \in BINDABLE_SHAPES)

\* .map(d).sort((a, b) => a.d - b.d)[0]: the sort is stable, so the first
\* of the candidates at the smallest distance; 0 when there is none.
Best(cands, p) ==
    IF cands = <<>>
    THEN 0
    ELSE CHOOSE n \in 1..Len(cands) :
            /\ \A k \in 1..Len(cands) :
                   distToRect(p.x, p.y, cands[n]) <= distToRect(p.x, p.y, cands[k])
            /\ \A k \in 1..(n - 1) :
                   distToRect(p.x, p.y, cands[k]) > distToRect(p.x, p.y, cands[n])

BindNearest(cands, p) ==
    LET n == Best(cands, p)
    IN  IF n # 0 /\ WithinBindingDist(distToRect(p.x, p.y, cands[n]))
        THEN Binding(cands[n].id, fixedPointForPoint(p.x, p.y, cands[n]))
        ELSE NoBinding

\* the local startBinding of ensureArrowBindings after its first if
StartBindingOf(elements, el) ==
    IF ~el.startBinding.has /\ Len(Bindable(elements)) > 0
    THEN BindNearest(SelectSeq(Bindable(elements), LAMBDA b : b.id # el.id), StartPoint(el))
    ELSE el.startBinding

\* the local endBinding of ensureArrowBindings after its second if
EndBindingOf(elements, el) ==
    LET sb == StartBindingOf(elements, el)
    IN  IF ~el.endBinding.has /\ Len(Bindable(elements)) > 0
        THEN BindNearest(
                 SelectSeq(Bindable(elements),
                           LAMBDA b : b.id # el.id /\ ~(sb.has /\ b.id = sb.elementId)),
                 EndPoint(el))
        ELSE el.endBinding

\* the first map of ensureArrowBindings
BindArrow(elements, el) ==
    IF ~IsArrowOrLine(el)
    THEN el
    ELSE [el EXCEPT !.startBinding = StartBindingOf(elements, el),
                    !.endBinding = EndBindingOf(elements, el)]

HasRef(refs, id) == \E k \in 1..Len(refs) : refs[k].id = id

\* boundUpdates.get(target) after the first n elements were mapped; <<>> when
\* the map has no entry for target.
RECURSIVE BoundUpdates(_, _, _)
BoundUpdates(elements, n, target) ==
    IF n = 0
    THEN <<>>
    ELSE LET cur == BoundUpdates(elements, n - 1, target)
             el == elements[n]
             sb == StartBindingOf(elements, el)
             eb == EndBindingOf(elements, el)
             atStart == sb.has /\ sb.elementId = target
             atEnd == /\ eb.has
                      /\ ~(sb.has /\ eb.elementId = sb.elementId)
                      /\ eb.elementId = target
         IN  IF IsArrowOrLine(el) /\ (atStart \/ atEnd) /\ ~HasRef(cur, el.id)
             THEN Append(cur, ArrowRef(el.id))
             ELSE cur

MergeRefs_noDedupe(merged, add) == merged \o add

\* for (const ref of add) if (!merged.some(...)) merged.push(ref)
RECURSIVE MergeRefs(_, _)
MergeRefs(merged, add) ==
    IF add = <<>>
    THEN merged
    ELSE MergeRefs(IF HasRef(merged, Head(add).id) THEN merged ELSE Append(merged, Head(add)),
                   Tail(add))

ensureArrowBindings(elements) ==
    [n \in 1..Len(elements) |->
        LET el == BindArrow(elements, elements[n])
            add == BoundUpdates(elements, Len(elements), el.id)
        IN  IF add = <<>>
            THEN el
            ELSE [el EXCEPT !.boundElements = MergeRefs(el.boundElements, add)]]

ForceHead(head) ==
    IF head.k = "string" /\ head.v # "none" THEN Arrowhead("triangle") ELSE head

forceTriangleArrowhead(elements) ==
    [n \in 1..Len(elements) |->
        LET el == elements[n]
        IN  IF ~IsArrowOrLine(el)
            THEN el
            ELSE [el EXCEPT !.startArrowhead = ForceHead(el.startArrowhead),
                            !.endArrowhead = ForceHead(el.endArrowhead)]]

Area(el) == el.width * el.height

\* the place a stable descending sort gives el after the elements of sorted
RECURSIVE InsertByArea(_, _)
InsertByArea(sorted, el) ==
    IF sorted = <<>>
    THEN <<el>>
    ELSE IF Area(Head(sorted)) >= Area(el)
         THEN <<Head(sorted)>> \o InsertByArea(Tail(sorted), el)
         ELSE <<el>> \o sorted

ByArea_inputOrder(containers) == containers

\* [...containers].sort((a, b) => (b.width * b.height) - (a.width * a.height))
RECURSIVE ByArea(_)
ByArea(containers) ==
    IF containers = <<>>
    THEN <<>>
    ELSE InsertByArea(ByArea(SubSeq(containers, 1, Len(containers) - 1)),
                      containers[Len(containers)])

Drawable(elements) == SelectSeq(elements, LAMBDA el : ~IsPseudoType(el))

Containers(elements) ==
    SelectSeq(Drawable(elements), LAMBDA el : el.type \in CONTAINER_SHAPES)

WithBounds(elements) ==
    SelectSeq(Drawable(elements), LAMBDA el : el.type \in HAS_BOUNDS)

\* cb && isFullyInside(cb, pb)
InsideOf(c, p) ==
    elementBounds(c).has /\ isFullyInside(elementBounds(c), elementBounds(p))

\* resultById.get(id).idx: the map keeps the last element set under an id
LastIndexOfId(res, id) ==
    IF \E n \in 1..Len(res) : res[n].id = id
    THEN CHOOSE n \in 1..Len(res) :
            res[n].id = id /\ \A k \in (n + 1)..Len(res) : res[k].id # id
    ELSE 0

InSeq(x, seq) == \E n \in 1..Len(seq) : seq[n] = x

AddGroup_replace(res, toGroup, groupId) ==
    [n \in 1..Len(res) |->
        IF \E k \in 1..Len(toGroup) : LastIndexOfId(res, toGroup[k].id) = n
        THEN [res[n] EXCEPT !.groupIds = <<groupId>>]
        ELSE res[n]]

\* for (const el of toGroup) { ... groupIds: [...existing, groupId] }
RECURSIVE AddGroup(_, _, _)
AddGroup(res, toGroup, groupId) ==
    IF toGroup = <<>>
    THEN res
    ELSE LET idx == LastIndexOfId(res, Head(toGroup).id)
             next == IF idx = 0 \/ InSeq(groupId, res[idx].groupIds)
                     THEN res
                     ELSE [res EXCEPT ![idx].groupIds = Append(@, groupId)]
         IN  AddGroup(next, Tail(toGroup), groupId)

GroupChildren(withBounds, parent) ==
    SelectSeq(withBounds, LAMBDA c : c.id # parent.id /\ InsideOf(c, parent))

\* for (const parent of byArea): the result and the number of group ids
\* generated after the loop
RECURSIVE GroupLoop(_, _, _, _)
GroupLoop(byArea, withBounds, res, fresh) ==
    IF byArea = <<>>
    THEN [els |-> res, fresh |-> fresh]
    ELSE LET parent == Head(byArea)
             children == GroupChildren(withBounds, parent)
         IN  IF ~elementBounds(parent).has \/ children = <<>>
             THEN GroupLoop(Tail(byArea), withBounds, res, fresh)
             ELSE GroupLoop(Tail(byArea), withBounds,
                            AddGroup(res, <<parent>> \o children, fresh + 1),
                            fresh + 1)

assignGroupIdsForNestedShapes(elements, fresh) ==
    IF Len(Containers(elements)) < 1 \/ Len(WithBounds(elements)) < 2
    THEN [els |-> elements, fresh |-> fresh]
    ELSE GroupLoop(ByArea(Containers(elements)), WithBounds(elements), elements, fresh)

\* the shapes inside p that reorderElementsForArrows looks at
ShapeChildren(elements, p) ==
    SelectSeq(Drawable(elements),
              LAMBDA c : /\ c.id # p.id
                         /\ c.type \in CONTAINER_SHAPES
                         /\ c.type \in HAS_BOUNDS
                         /\ InsideOf(c, p))

\* containerIds: the loop adds p.id for every container with bounds that has a
\* shape inside; the order of byArea does not change the set.
ContainerIds(elements) ==
    LET cs == ByArea(Containers(elements))
    IN  {cs[n].id : n \in {j \in 1..Len(cs) :
                             elementBounds(cs[j]).has /\ ShapeChildren(elements, cs[j]) # <<>>}}

NestedIds(elements) ==
    LET cs == ByArea(Containers(elements))
    IN  {c.id : c \in UNION {{ShapeChildren(elements, cs[k])[j] :
                                  j \in 1..Len(ShapeChildren(elements, cs[k]))} :
                             k \in {n \in 1..Len(cs) : elementBounds(cs[n]).has}}}

ArrowIds(elements) ==
    {Drawable(elements)[n].id :
        n \in {k \in 1..Len(Drawable(elements)) : IsArrowOrLine(Drawable(elements)[k])}}

reorderElementsForArrows(elements) ==
    LET back == SelectSeq(elements, LAMBDA el : el.id \in ContainerIds(elements))
        mid == SelectSeq(elements, LAMBDA el : el.id \in ArrowIds(elements))
        front == SelectSeq(elements, LAMBDA el : el.id \in NestedIds(elements))
        other == SelectSeq(elements,
                           LAMBDA el : /\ el.id \notin ContainerIds(elements)
                                       /\ el.id \notin NestedIds(elements)
                                       /\ el.id \notin ArrowIds(elements))
    IN  back \o mid \o front \o other

-----------------------------------------------------------------------------
(* Label merging and clean style, the two steps that precede the pipeline. *)
(* An element carries text and fontSize (0: not given), a label, roughness *)
(* and strokeColor, a style field none of the steps reads ("": not given). *)

LABELABLE_SHAPES == {"rectangle", "diamond", "ellipse"}

MAX_GROUP_TITLE_GAP_ABOVE == 80

MAX_GROUP_TITLE_OVERLAP_BELOW == 60

NoLabel == [has |-> FALSE, text |-> "", fontSize |-> 0, textAlign |-> "", verticalAlign |-> ""]

\* positive: the text ends above the shape's top; negative: it reaches into it
TitleGap(T, S) == S.y - (T.y + T.height)

TitleCandidate(T, S) ==
    /\ ~S.label.has
    /\ TitleGap(T, S) <= MAX_GROUP_TITLE_GAP_ABOVE
    /\ TitleGap(T, S) >= -MAX_GROUP_TITLE_OVERLAP_BELOW
    /\ ~(T.x + T.width < S.x \/ T.x > S.x + S.width)

\* the loop over the shapes from the n-th on: the index of the best, 0 for none
RECURSIVE BestShape(_, _, _, _)
BestShape(T, shapes, n, best) ==
    IF n > Len(shapes)
    THEN best
    ELSE LET S == shapes[n]
             better == \/ best = 0
                       \/ Area(S) > Area(shapes[best])
                       \/ /\ Area(S) = Area(shapes[best])
                          /\ TitleGap(T, S) < TitleGap(T, shapes[best])
         IN  BestShape(T, shapes, n + 1, IF TitleCandidate(T, S) /\ better THEN n ELSE best)

LabelableShapes(elements) == SelectSeq(elements, LAMBDA el : el.type \in LABELABLE_SHAPES)

Texts(elements) == SelectSeq(elements, LAMBDA el : el.type = "text")

\* the texts that found a shape, by index
MergedTexts(elements) ==
    {k \in 1..Len(Texts(elements)) :
        BestShape(Texts(elements)[k], LabelableShapes(elements), 1, 0) # 0}

\* the texts whose shape has the id shapeId: the map keeps the last of them
MergedInto(elements, shapeId) ==
    {k \in MergedTexts(elements) :
        LabelableShapes(elements)[BestShape(Texts(elements)[k],
                                            LabelableShapes(elements), 1, 0)].id = shapeId}

textIdsToRemove(elements) == {Texts(elements)[k].id : k \in MergedTexts(elements)}

LabelFrom(text) ==
    [has |-> TRUE, text |-> text.text,
     fontSize |-> IF text.fontSize = 0 THEN 20 ELSE text.fontSize,
     textAlign |-> "center", verticalAlign |-> "top"]

\* the first text that has the id of the last text merged into the shape
shapeLabels(elements, shapeId) ==
    LET last == CHOOSE k \in MergedInto(elements, shapeId) :
                    \A j \in MergedInto(elements, shapeId) : j <= k
        first == CHOOSE k \in 1..Len(Texts(elements)) :
                     /\ Texts(elements)[k].id = Texts(elements)[last].id
                     /\ \A j \in 1..(k - 1) : Texts(elements)[j].id # Texts(elements)[last].id
    IN  LabelFrom(Texts(elements)[first])

MergeGroupTitles(elements) ==
    LET kept == SelectSeq(elements, LAMBDA el : el.id \notin textIdsToRemove(elements))
    IN  [n \in 1..Len(kept) |->
            IF MergedInto(elements, kept[n].id) # {}
            THEN [kept[n] EXCEPT !.label = shapeLabels(elements, kept[n].id)]
            ELSE kept[n]]

forceCleanStyle(elements) ==
    [n \in 1..Len(elements) |-> [elements[n] EXCEPT !.roughness = 0]]

-----------------------------------------------------------------------------
(* Label merging, clean style and the pipeline of doFinal and              *)
(* renderSvgPreview, the pipeline run on a scene and then on its own       *)
(* output, as when a normalized scene comes back as a base.                *)

Shape(id, type, x, y, w, h, groupIds) ==
    [id |-> id, type |-> type, x |-> x, y |-> y, width |-> w, height |-> h,
     points |-> <<>>, startBinding |-> NoBinding, endBinding |-> NoBinding,
     boundElements |-> <<>>, groupIds |-> groupIds,
     startArrowhead |-> NoArrowhead, endArrowhead |-> NoArrowhead,
     text |-> "", fontSize |-> 0, label |-> NoLabel, roughness |-> 1, strokeColor |-> ""]

Linear(id, type, x, y, w, h, points, sb, eb, sh, eh) ==
    [id |-> id, type |-> type, x |-> x, y |-> y, width |-> w, height |-> h,
     points |-> points, startBinding |-> sb, endBinding |-> eb,
     boundElements |-> <<>>, groupIds |-> <<>>,
     startArrowhead |-> sh, endArrowhead |-> eh,
     text |-> "", fontSize |-> 0, label |-> NoLabel, roughness |-> 1, strokeColor |-> ""]

\* A holds B and C, B holds C; D stands apart and holds the arrow q.  r runs
\* from inside A, B and C to 20 left of D; l starts bound to D and ends 20
\* below it; m is farther than the radius from every shape; q is bound to D
\* at both ends.
GeomPool ==
    <<Shape("A", "rectangle", 0, 0, 400, 300, <<>>),
      Shape("B", "rectangle", 20, 20, 200, 150, <<0>>),
      Shape("C", "ellipse", 40, 40, 60, 60, <<>>),
      [Shape("D", "diamond", 600, 0, 100, 100, <<>>) EXCEPT !.endArrowhead = Arrowhead("arrow")],
      Linear("r", "arrow", 100, 70, 480, 0, <<<<0, 0>>, <<480, 0>>>>,
             NoBinding, NoBinding, NullArrowhead, Arrowhead("arrow")),
      Linear("l", "line", 650, 150, 0, 30, <<<<0, 0>>, <<0, -30>>>>,
             Binding("D", <<1, 2>>), NoBinding, Arrowhead("none"), Arrowhead("")),
      Linear("m", "arrow", 900, 900, 50, 50, <<>>,
             NoBinding, NoBinding, NoArrowhead, Arrowhead("triangle")),
      Linear("q", "arrow", 620, 20, 10, 10, <<<<0, 0>>, <<10, 10>>>>,
             Binding("D", <<0, 1>>), Binding("D", <<2, 1>>), Arrowhead("dot"), NoArrowhead)>>

DistinctPicks(picks) ==
    \A i, j \in 1..Len(picks) : i # j => picks[i] # picks[j]

TitleText(id, x, y, w, h, text, fontSize, strokeColor) ==
    [Shape(id, "text", x, y, w, h, <<>>) EXCEPT
        !.text = text, !.fontSize = fontSize, !.strokeColor = strokeColor]

\* t ends 20 above D and u 10 above it, both over D's width; v is far from
\* every shape; E is a diamond of D's size, 50 to its right, that has a label.
TitlePool ==
    <<TitleText("t", 610, -40, 50, 20, "Zone", 0, "#e03131"),
      TitleText("u", 620, -30, 60, 20, "Core", 28, ""),
      TitleText("v", 2000, 2000, 50, 20, "Note", 16, "#1971c2"),
      [Shape("E", "diamond", 650, 0, 100, 100, <<>>) EXCEPT
          !.label = [has |-> TRUE, text |-> "Own", fontSize |-> 16,
                     textAlign |-> "", verticalAlign |-> ""],
          !.strokeColor = "#2f9e44"]>>

\* the scenes that hold title texts: one to three pool titles and labelled
\* shapes, in any order, among at most two of A, D and r
TitleScenes ==
    {[n \in 1..Len(picks) |->
        IF picks[n] <= Len(TitlePool) THEN TitlePool[picks[n]]
        ELSE GeomPool[<<1, 4, 5>>[picks[n] - Len(TitlePool)]]] :
        picks \in {p \in SeqsUpTo(1..(Len(TitlePool) + 3), MaxScene) :
                      /\ DistinctPicks(p)
                      /\ \E n \in 1..Len(p) : p[n] <= 3
                      /\ Cardinality({n \in 1..Len(p) : p[n] > Len(TitlePool)}) <= 2}}

\* e starts 20 below D, where no other shape is within the radius, and its
\* end is bound to D in the input.
EndBoundArrow ==
    Linear("e", "arrow", 650, 120, 0, 10, <<<<0, 0>>, <<0, -10>>>>,
           NoBinding, Binding("D", <<1, 2>>), NoArrowhead, Arrowhead("arrow"))

\* the scenes that hold e: e with C, D or both, in any order
BindScenes ==
    {[n \in 1..Len(picks) |-> <<GeomPool[3], GeomPool[4], EndBoundArrow>>[picks[n]]] :
        picks \in {p \in SeqsUpTo(1..3, MaxScene) :
                      DistinctPicks(p) /\ \E n \in 1..Len(p) : p[n] = 3}}

\* the scenes of at most MaxScene pool elements with pairwise distinct ids
InputScenes ==
    {[n \in 1..Len(picks) |-> GeomPool[picks[n]]] :
        picks \in {p \in SeqsUpTo(1..Len(GeomPool), MaxScene) : p # <<>> /\ DistinctPicks(p)}}

GeomInit ==
    /\ ParseIdle
    /\ ServerIdle
    /\ WidgetIdle
    /\ CameraIdle
    /\ AppIdle
    /\ graw \in InputScenes \cup TitleScenes \cup BindScenes
    /\ ginput = graw
    /\ gscene = graw
    /\ gprev = graw
    /\ gstage = -2
    /\ gfresh = 0
    /\ gfirst = <<>>

\* the effect merges the title texts of the drawable elements of a frame
StepMerge ==
    /\ gstage = -2
    /\ gprev' = gscene
    /\ gscene' = MergeGroupTitles(gscene)
    /\ gstage' = -1
    /\ UNCHANGED <<ginput, gfresh, gfirst, graw>>
    /\ UNCHANGED <<parseVars, serverVars, widgetVars, cameraVars, appVars>>

\* the renderer cleans the style of what it was handed: the pipeline's input
StepClean ==
    /\ gstage = -1
    /\ gprev' = gscene
    /\ gscene' = forceCleanStyle(gscene)
    /\ ginput' = forceCleanStyle(gscene)
    /\ gstage' = 0
    /\ UNCHANGED <<gfresh, gfirst, graw>>
    /\ UNCHANGED <<parseVars, serverVars, widgetVars, cameraVars, appVars>>

StepBind ==
    /\ gstage \in {0, 4}
    /\ gprev' = gscene
    /\ gscene' = ensureArrowBindings(gscene)
    /\ gstage' = gstage + 1
    /\ UNCHANGED <<ginput, gfresh, gfirst, graw>>
    /\ UNCHANGED <<parseVars, serverVars, widgetVars, cameraVars, appVars>>

StepArrowhead ==
    /\ gstage \in {1, 5}
    /\ gprev' = gscene
    /\ gscene' = forceTriangleArrowhead(gscene)
    /\ gstage' = gstage + 1
    /\ UNCHANGED <<ginput, gfresh, gfirst, graw>>
    /\ UNCHANGED <<parseVars, serverVars, widgetVars, cameraVars, appVars>>

StepGroup ==
    /\ gstage \in {2, 6}
    /\ gprev' = gscene
    /\ gscene' = assignGroupIdsForNestedShapes(gscene, gfresh).els
    /\ gfresh' = assignGroupIdsForNestedShapes(gscene, gfresh).fresh
    /\ gstage' = gstage + 1
    /\ UNCHANGED <<ginput, gfirst, graw>>
    /\ UNCHANGED <<parseVars, serverVars, widgetVars, cameraVars, appVars>>

StepReorder ==
    /\ gstage \in {3, 7}
    /\ gprev' = gscene
    /\ gscene' = reorderElementsForArrows(gscene)
    /\ gfirst' = IF gstage = 3 THEN reorderElementsForArrows(gscene) ELSE gfirst
    /\ gstage' = gstage + 1
    /\ UNCHANGED <<ginput, gfresh, graw>>
    /\ UNCHANGED <<parseVars, serverVars, widgetVars, cameraVars, appVars>>

GeomNext == StepMerge \/ StepClean \/ StepBind \/ StepArrowhead \/ StepGroup \/ StepReorder

SpecGeom == GeomInit /\ [][GeomNext]_vars

-----------------------------------------------------------------------------
(* Claims about the geometry normalization pipeline.                       *)

Ids(scene) == [n \in 1..Len(scene) |-> scene[n].id]

Count(scene, id) == Cardinality({n \in 1..Len(scene) : scene[n].id = id})

DistinctIds(scene) ==
    \A i, j \in 1..Len(scene) : i # j => scene[i].id # scene[j].id

\* the first pass of the pipeline has just ended
FirstPassDone == gstage = 4

\* C13: when the ids of the input scene are pairwise distinct, the scene the
\* pipeline produces holds each input element exactly once: it is as long
\* as the input and every input id occurs in it once.
C13_EachElementOnce ==
    (FirstPassDone /\ DistinctIds(ginput)) =>
        /\ Len(gscene) = Len(ginput)
        /\ \A n \in 1..Len(ginput) : Count(gscene, ginput[n].id) = 1

IsShape(el) == el.type \in {"rectangle", "diamond", "ellipse"}

\* shape p fully contains the other shape c
HoldsShape(p, c) ==
    /\ IsShape(p) /\ IsShape(c) /\ p.id # c.id
    /\ p.width > 0 /\ p.height > 0 /\ c.width > 0 /\ c.height > 0
    /\ c.x >= p.x /\ c.y >= p.y
    /\ c.x + c.width <= p.x + p.width /\ c.y + c.height <= p.y + p.height

IsContainerIn(scene, el) == \E n \in 1..Len(scene) : HoldsShape(el, scene[n])

IsNestedIn(scene, el) == \E n \in 1..Len(scene) : HoldsShape(scene[n], el)

\* the group of the draw order the claim puts an element of the scene in
GroupOf(scene, el) ==
    IF IsContainerIn(scene, el) THEN 1
    ELSE IF IsArrowOrLine(el) THEN 2
    ELSE IF IsNestedIn(scene, el) THEN 3
    ELSE 4

\* position of the first element of the scene with this id
FirstIndex(scene, id) == SetMin({n \in 1..Len(scene) : scene[n].id = id})

\* C14: in the output of reorderElementsForArrows on a scene with distinct ids,
\* every container precedes every arrow or line, every nested shape follows
\* every arrow or line and every shape that contains it, and two elements of
\* the same group stand in their input order.
C14_FourGroupsInOrder ==
    (FirstPassDone /\ DistinctIds(gprev)) =>
        \A i, j \in 1..Len(gscene) :
            /\ (IsContainerIn(gprev, gscene[i]) /\ IsArrowOrLine(gscene[j])) => i < j
            /\ (IsArrowOrLine(gscene[i]) /\ IsNestedIn(gprev, gscene[j])) => i < j
            /\ HoldsShape(gscene[i], gscene[j]) => i < j
            /\ (i < j /\ gscene[i].id # gscene[j].id
                      /\ GroupOf(gprev, gscene[i]) = GroupOf(gprev, gscene[j]))
                   => FirstIndex(gprev, gscene[i].id) < FirstIndex(gprev, gscene[j].id)

IsBoundable(el) == el.type \in {"rectangle", "diamond", "ellipse", "arrow", "text", "line"}

\* shape p fully contains the other boundable element c
HoldsElement(p, c) ==
    /\ IsShape(p) /\ IsBoundable(c) /\ p.id # c.id
    /\ p.width > 0 /\ p.height > 0 /\ c.width > 0 /\ c.height > 0
    /\ c.x >= p.x /\ c.y >= p.y
    /\ c.x + c.width <= p.x + p.width /\ c.y + c.height <= p.y + p.height

\* positions of the shapes of the scene that contain some element of it
Parents(scene) ==
    {p \in 1..Len(scene) : \E n \in 1..Len(scene) : HoldsElement(scene[p], scene[n])}

\* element n is in the group of parent p
InGroupOf(scene, n, p) == n = p \/ HoldsElement(scene[p], scene[n])

\* the group ids the last step appended to element n
NewGroupIds(n) ==
    SubSeq(gscene[n].groupIds, Len(gprev[n].groupIds) + 1, Len(gscene[n].groupIds))

SeqSet(seq) == {seq[n] : n \in 1..Len(seq)}

\* the first auto-grouping has just run
FirstGroupingDone == gstage = 3

SecondPassDone == gstage = 8

\* the bindings of the arrows and lines of a scene, by id
BindingsOf(scene) ==
    {<<scene[n].id, scene[n].startBinding, scene[n].endBinding, scene[n].boundElements>> :
        n \in 1..Len(scene)}

\* the group ids of the elements of a scene, by id
GroupsOf(scene) == {<<scene[n].id, scene[n].groupIds>> : n \in 1..Len(scene)}

\* C16: the pipeline run on its own output yields the bindings, the groups
\* and the draw order of the first run.
C16_SecondRunIsNoop ==
    SecondPassDone =>
        /\ BindingsOf(gscene) = BindingsOf(gfirst)
        /\ GroupsOf(gscene) = GroupsOf(gfirst)
        /\ Ids(gscene) = Ids(gfirst)

\* g names, for every containing shape, the id generated for its group: the
\* ids an element gained are those of the shapes whose group it is in
IsGroupAssignment(g) ==
    \A n \in 1..Len(gprev) :
        SeqSet(NewGroupIds(n)) = {g[p] : p \in {k \in Parents(gprev) : InGroupOf(gprev, n, k)}}

\* position of a group id in the groupIds of element n after the step
PosOfGroup(n, id) == SetMin({k \in 1..Len(gscene[n].groupIds) : gscene[n].groupIds[k] = id})

\* C17: after auto-grouping, in the groupIds of every element the ids it had
\* before come first, and the id of the group of a container precedes the id
\* of the group of every container nested inside that one.
C17_OutermostFirst ==
    (FirstGroupingDone /\ DistinctIds(gprev)) =>
        \E g \in [Parents(gprev) -> 1..gfresh] :
            /\ IsGroupAssignment(g)
            /\ \A n \in 1..Len(gprev) :
                  /\ SubSeq(gscene[n].groupIds, 1, Len(gprev[n].groupIds)) = gprev[n].groupIds
                  /\ \A p1, p2 \in Parents(gprev) :
                         (/\ HoldsElement(gprev[p1], gprev[p2])
                          /\ InGroupOf(gprev, n, p1)
                          /\ InGroupOf(gprev, n, p2))
                             => PosOfGroup(n, g[p1]) < PosOfGroup(n, g[p2])

\* C17 witness: in [C, B, A], given innermost first, the outer rectangle A got
\* the first id and B the second; B lists its earlier id 0, then A's group,
\* then its own.
C17_Witness ==
    /\ FirstGroupingDone
    /\ Ids(gprev) = <<"C", "B", "A">>
    /\ gscene[1].groupIds = <<1, 2>>
    /\ gscene[2].groupIds = <<0, 1, 2>>
    /\ gscene[3].groupIds = <<1>>

\* the first auto-binding has just run
FirstBindingDone == gstage = 1

\* the shapes of the scene an endpoint of el may be bound to, given the
\* binding of el's start point when the endpoint is the end point
EligibleShapes(scene, el, skip) ==
    {s \in SeqSet(scene) : IsShape(s) /\ s.id # el.id /\ ~(skip.has /\ s.id = skip.elementId)}

\* a squared distance that is at most the binding radius
WithinRadius(d2) == d2 <= MAX_BINDING_DIST * MAX_BINDING_DIST

\* binding out was chosen for the endpoint p among the eligible shapes: a
\* nearest one, when one is within the radius, and none otherwise
NearestWithinRadius(eligible, p, out) ==
    /\ out.has <=> \E s \in eligible : WithinRadius(distToRect(p.x, p.y, s))
    /\ out.has =>
          \E t \in eligible :
              /\ t.id = out.elementId
              /\ WithinRadius(distToRect(p.x, p.y, t))
              /\ \A s \in eligible : distToRect(p.x, p.y, t) <= distToRect(p.x, p.y, s)

\* C18: after ensureArrowBindings on a scene with distinct ids, every
\* explicit binding of an arrow or line is as given; a start point without
\* one is bound to a nearest shape other than the arrow itself iff that shape
\* is at most MAX_BINDING_DIST away; an end point without one likewise among
\* the shapes other than the arrow and the shape of its start binding.
C18_NearestWithinRadius ==
    (FirstBindingDone /\ DistinctIds(gprev)) =>
        \A n \in 1..Len(gprev) :
            IsArrowOrLine(gprev[n]) =>
                /\ gprev[n].startBinding.has => gscene[n].startBinding = gprev[n].startBinding
                /\ gprev[n].endBinding.has => gscene[n].endBinding = gprev[n].endBinding
                /\ ~gprev[n].startBinding.has =>
                       NearestWithinRadius(EligibleShapes(gprev, gprev[n], NoBinding),
                                           StartPoint(gprev[n]), gscene[n].startBinding)
                /\ ~gprev[n].endBinding.has =>
                       NearestWithinRadius(
                           EligibleShapes(gprev, gprev[n], gscene[n].startBinding),
                           EndPoint(gprev[n]), gscene[n].endBinding)

\* C18 as stated: for the end point only a shape that the step itself chose
\* for the start point is excluded, so that the shape of an explicit start
\* binding stays eligible.
C18_Original ==
    (FirstBindingDone /\ DistinctIds(gprev)) =>
        \A n \in 1..Len(gprev) :
            IsArrowOrLine(gprev[n]) =>
                /\ gprev[n].startBinding.has => gscene[n].startBinding = gprev[n].startBinding
                /\ gprev[n].endBinding.has => gscene[n].endBinding = gprev[n].endBinding
                /\ ~gprev[n].startBinding.has =>
                       NearestWithinRadius(EligibleShapes(gprev, gprev[n], NoBinding),
                                           StartPoint(gprev[n]), gscene[n].startBinding)
                /\ ~gprev[n].endBinding.has =>
                       NearestWithinRadius(
                           EligibleShapes(gprev, gprev[n],
                                          IF gprev[n].startBinding.has
                                          THEN NoBinding
                                          ELSE gscene[n].startBinding),
                           EndPoint(gprev[n]), gscene[n].endBinding)

\* C18 witness: in [C, r, D, l] the arrow r, which starts inside C only and
\* ends 20 from D only, is bound to C and D; the line l keeps its explicit
\* start binding to D and its end, 20 from D, is left unbound.
C18_Witness ==
    /\ FirstBindingDone
    /\ Ids(gprev) = <<"C", "r", "D", "l">>
    /\ gscene[2].startBinding.has /\ gscene[2].startBinding.elementId = "C"
    /\ gscene[2].endBinding.has /\ gscene[2].endBinding.elementId = "D"
    /\ gscene[4].startBinding = Binding("D", <<1, 2>>)
    /\ ~gscene[4].endBinding.has

\* auto-binding has just run, on the input or on the first pass's output
BindingDone == gstage \in {1, 5}

\* arrow a has a start or end binding to the element t
Targets(a, t) ==
    \/ a.startBinding.has /\ a.startBinding.elementId = t.id
    \/ a.endBinding.has /\ a.endBinding.elementId = t.id

\* number of entries of t.boundElements with this id
RefCount(t, id) == Cardinality({k \in 1..Len(t.boundElements) : t.boundElements[k].id = id})

\* C19: after ensureArrowBindings, on the input scene and again on the
\* output of the first pass, every shape that an arrow or line of the scene is
\* bound to at its start or its end has the id of that arrow in its
\* boundElements exactly once.
C19_BackReferenceOnce ==
    BindingDone =>
        \A a, t \in 1..Len(gscene) :
            (IsArrowOrLine(gscene[a]) /\ IsShape(gscene[t]) /\ Targets(gscene[a], gscene[t]))
                => RefCount(gscene[t], gscene[a].id) = 1

\* C19 witness: the second run on [D, q, l, r], where q is bound to D at both
\* ends, l at its start and r at its end: D lists each arrow once.
C19_Witness ==
    /\ gstage = 5
    /\ Ids(ginput) = <<"D", "q", "l", "r">>
    /\ Ids(gscene) = <<"q", "l", "r", "D">>
    /\ gscene[4].boundElements = <<ArrowRef("q"), ArrowRef("l"), ArrowRef("r")>>

\* the first arrowhead normalization has just run
FirstArrowheadDone == gstage = 2

\* an arrowhead that is set to a non-empty value other than "none"
IsSetHead(head) == head.k = "string" /\ head.v # "" /\ head.v # "none"

\* what the claim gives for an arrowhead of an arrow or line
HeadAsClaimed(head) == IF IsSetHead(head) THEN Arrowhead("triangle") ELSE head

\* C20: after forceTriangleArrowhead every arrowhead of an arrow or line that
\* was set to a non-empty value other than "none" is "triangle", every
\* arrowhead that was undefined, null, empty or "none" has its input value, and
\* every element of another type equals its input.
C20_EmptyKeepsValue ==
    FirstArrowheadDone =>
        /\ Len(gscene) = Len(gprev)
        /\ \A n \in 1..Len(gprev) :
              IF IsArrowOrLine(gprev[n])
              THEN /\ gscene[n].startArrowhead = HeadAsClaimed(gprev[n].startArrowhead)
                   /\ gscene[n].endArrowhead = HeadAsClaimed(gprev[n].endArrowhead)
              ELSE gscene[n] = gprev[n]

\* The output scene holds an element of el's id with el's strokeColor.
HoldsAuthored(scene, el) ==
    \E k \in 1..Len(scene) : scene[k].id = el.id /\ scene[k].strokeColor = el.strokeColor

\* C21: through label merging, clean style, auto-binding, arrowhead
\* normalization, auto-grouping and draw-order correction no authored field is
\* stripped: a style field the pipeline does not read, given on an input
\* element, is on that element in the output scene with its input value.
C21_AuthoredFieldsKept ==
    FirstPassDone =>
        \A n \in 1..Len(graw) : graw[n].strokeColor # "" => HoldsAuthored(gscene, graw[n])

-----------------------------------------------------------------------------
(* Claims about the camera target of the widget *)

\* The camera directives of the array the last frame resolved, by position.
CameraEntries == {n \in 1..Len(Extracted) : TypeIs(Extracted[n], "cameraUpdate")}

\* C22: when a frame has been processed whose resolved array carries camera
\* directives, then, once the passes started have completed, the camera target
\* equals the last of those directives: none is left unapplied.
C22_LastDirectiveIsTarget ==
    (lastFrame.kind # "none" /\ AllPassesDone /\ CameraEntries # {}) =>
        targetVP = ViewportOf(Extracted[SetMax(CameraEntries)])

\* The passes that are suspended in their resolution, before any render.
Resolving == {i \in 1..Len(passes) : passes[i].pc = "load"}

\* C29: no two resolution passes of an invocation are in progress at the same
\* time: the resolution started for a chunk has run to completion when the
\* pass for the next chunk, or for the final payload, starts.
C29_OneResolutionAtATime == Cardinality(Resolving) <= 1

-----------------------------------------------------------------------------
(* The camera of the widget: the viewport a render commits, the animation  *)
(* loop that moves the animated viewport toward the target, and the        *)
(* unmount.  A number is held in thousandths of a pixel and the result of  *)
(* an addition is rounded to the nearest thousandth, as the sum of two     *)
(* doubles is rounded to the nearest double.  Fonts are loaded, so that a  *)
(* render runs from its call to the export without suspension.             *)

\* thousandths in a pixel: the resolution of the numbers
Scale == 1000

MaxRenders == 3

\* const LERP_SPEED = 0.03, in hundredths
LERP_SPEED == 3

Px(n) == n * Scale

Cam(x, y, w, h) == [has |-> TRUE, x |-> x, y |-> y, width |-> w, height |-> h]

\* const defaultVP: ViewportRect = { x: 0, y: 0, width: 1024, height: 768 }
defaultVP == Cam(0, 0, Px(1024), Px(768))

\* the integer nearest to n / d, for d > 0
RoundDiv(n, d) == (2 * n + d) \div (2 * d)

Lerp_snap(a, t) == t

\* a += (t - a) * LERP_SPEED
Lerp(a, t) == a + RoundDiv((t - a) * LERP_SPEED, 100)

LerpViewport(a, t) ==
    Cam(Lerp(a.x, t.x), Lerp(a.y, t.y), Lerp(a.width, t.width), Lerp(a.height, t.height))

\* Math.abs(t.x - a.x) + Math.abs(t.y - a.y) + ...
Delta(a, t) ==
    Abs(t.x - a.x) + Abs(t.y - a.y) + Abs(t.width - a.width) + Abs(t.height - a.height)

\* the 0.5 of the test delta > 0.5
Epsilon == Scale \div 2

KeepsAnimating_always(a, t) == TRUE

\* if (delta > 0.5)
KeepsAnimating(a, t) == Delta(a, t) > Epsilon

\* Math.abs(w / h - 4 / 3) < 0.01, for h > 0
Near4x3(w, h) == 100 * Abs(3 * w - 4 * h) < 3 * h

\* Math.round(n / d) of a number of pixels
RoundPx(n, d) == RoundDiv(n, d * Scale) * Scale

vp4x3(vp) ==
    IF Near4x3(vp.width, vp.height) THEN vp
    ELSE IF 3 * vp.width > 4 * vp.height
    THEN [vp EXCEPT !.height = RoundPx(3 * vp.width, 4)]
    ELSE [vp EXCEPT !.width = RoundPx(4 * vp.height, 3)]

\* the viewBox after applyViewBox(): unchanged without an animated viewport,
\* without the container or without an SVG in it
applyViewBox(animated, mounted, image, bounds, old) ==
    IF ~animated.has \/ ~mounted \/ image = 0 THEN old
    ELSE [has |-> TRUE, vp |-> vp4x3(animated), bounds |-> bounds]

Handles == 1..(MaxRenders + 1)

\* the id requestAnimationFrame returns: one that no pending callback has
NewHandle(pending) == SetMin(Handles \ pending)

Cancel_noop(pending, handle) == pending

\* cancelAnimationFrame(handle)
Cancel(pending, handle) == pending \ {handle}

SnapIfUnset_always(animated, viewport) == viewport

\* animatedVP.current after a commit: set on the first viewport only
SnapIfUnset(animated, viewport) == IF animated.has THEN animated ELSE viewport

\* The camera directives of the frames: the default viewport panned by one
\* pixel, and the same shifted down by a hundredth of a pixel.
Directives ==
    {Cam(Px(1), 0, Px(1024), Px(768)),
     Cam(Px(1), Scale \div 100, Px(1024), Px(768))}

Export(frame, viewport, before) ==
    [frame |-> frame, viewport |-> viewport, boundsBefore |-> before]

Without(seq, i) == SubSeq(seq, 1, i - 1) \o SubSeq(seq, i + 1, Len(seq))

\* a step, the viewport of the render it is about, and what it found
Step(kind, viewport) ==
    [step |-> kind, viewport |-> viewport, animated |-> camAnimated,
     pending |-> rafPending # {}]

CameraInit ==
    /\ ParseIdle
    /\ ServerIdle
    /\ WidgetIdle
    /\ GeomIdle
    /\ AppIdle
    /\ CameraFresh
    /\ svgMounted = TRUE

\* renderSvgPreview from its call to the suspension in exportToSvg, for a
\* frame with something to draw: the scene bounds are written before the export
RenderStart(viewport) ==
    /\ svgMounted
    /\ renders < MaxRenders
    /\ renders' = renders + 1
    /\ boundsOf' = renders + 1
    /\ exporting' = Append(exporting, Export(renders + 1, viewport, boundsOf))
    /\ camLast' = Step("start", viewport)
    /\ UNCHANGED <<camAnimated, camTarget, rafPending, animFrameRef, svgMounted, svgImage,
                   viewBox, camFirst, exportFailed>>
    /\ UNCHANGED <<parseVars, serverVars, widgetVars, geomVars, appVars>>

\* the export of the i-th suspended render resolves: the SVG is put into the
\* document and the viewport, or the default viewport, is committed
ExportOk(i) ==
    /\ i \in 1..Len(exporting)
    /\ exporting' = Without(exporting, i)
    /\ camLast' = Step("export", exporting[i].viewport)
    /\ IF ~svgMounted
       THEN UNCHANGED <<camAnimated, camTarget, rafPending, animFrameRef, svgImage, viewBox,
                        camFirst>>
       ELSE LET viewport == exporting[i].viewport
                animated == SnapIfUnset(camAnimated, IF viewport.has THEN viewport ELSE defaultVP)
                cancelled == IF animFrameRef # 0 THEN Cancel(rafPending, animFrameRef)
                             ELSE rafPending
                handle == NewHandle(cancelled)
            IN  /\ svgImage' = exporting[i].frame
                /\ camAnimated' = animated
                /\ camTarget' = viewport
                /\ viewBox' = applyViewBox(animated, TRUE, exporting[i].frame, boundsOf, viewBox)
                /\ animFrameRef' = handle
                /\ rafPending' = IF viewport.has THEN cancelled \cup {handle}
                                 ELSE Cancel(cancelled \cup {handle}, handle)
                /\ camFirst' = IF viewport.has /\ ~camFirst.has
                               THEN [has |-> TRUE, snapped |-> animated = viewport]
                               ELSE camFirst
    /\ UNCHANGED <<svgMounted, renders, boundsOf, exportFailed>>
    /\ UNCHANGED <<parseVars, serverVars, widgetVars, geomVars, appVars>>

\* the export of the i-th suspended render throws: the catch swallows it
ExportFail(i) ==
    /\ i \in 1..Len(exporting)
    /\ exporting' = Without(exporting, i)
    /\ camLast' = Step("fail", exporting[i].viewport)
    /\ exportFailed' = [has |-> TRUE, frame |-> exporting[i].frame,
                        boundsBefore |-> exporting[i].boundsBefore]
    /\ UNCHANGED <<camAnimated, camTarget, rafPending, animFrameRef, svgMounted, renders,
                   boundsOf, svgImage, viewBox, camFirst>>
    /\ UNCHANGED <<parseVars, serverVars, widgetVars, geomVars, appVars>>

\* the browser runs the pending callback h: animateViewBox
Tick(h) ==
    /\ h \in rafPending
    /\ camLast' = Step("tick", NoCam)
    /\ IF ~camAnimated.has \/ ~camTarget.has
       THEN /\ rafPending' = rafPending \ {h}
            /\ UNCHANGED <<camAnimated, animFrameRef, viewBox>>
       ELSE LET a == LerpViewport(camAnimated, camTarget)
                handle == NewHandle(rafPending \ {h})
            IN  /\ camAnimated' = a
                /\ viewBox' = applyViewBox(a, svgMounted, svgImage, boundsOf, viewBox)
                /\ IF KeepsAnimating(a, camTarget)
                   THEN /\ rafPending' = (rafPending \ {h}) \cup {handle}
                        /\ animFrameRef' = handle
                   ELSE /\ rafPending' = rafPending \ {h}
                        /\ UNCHANGED animFrameRef
    /\ UNCHANGED <<camTarget, svgMounted, exporting, renders, boundsOf, svgImage, camFirst,
                   exportFailed>>
    /\ UNCHANGED <<parseVars, serverVars, widgetVars, geomVars, appVars>>

\* the component unmounts: React clears svgRef.current and runs the cleanup
Unmount ==
    /\ svgMounted
    /\ svgMounted' = FALSE
    /\ rafPending' = IF animFrameRef # 0 THEN Cancel(rafPending, animFrameRef) ELSE rafPending
    /\ camLast' = Step("unmount", NoCam)
    /\ UNCHANGED <<camAnimated, camTarget, animFrameRef, exporting, renders, boundsOf,
                   svgImage, viewBox, camFirst, exportFailed>>
    /\ UNCHANGED <<parseVars, serverVars, widgetVars, geomVars, appVars>>

CameraNext ==
    \/ \E viewport \in Directives \cup {NoCam} : RenderStart(viewport)
    \/ \E i \in 1..MaxRenders : ExportOk(i)
    \/ \E i \in 1..MaxRenders : ExportFail(i)
    \/ \E h \in Handles : Tick(h)
    \/ Unmount

SpecCamera == CameraInit /\ [][CameraNext]_vars

\* the browser runs a requested callback unless it is cancelled first
SpecCameraFair == SpecCamera /\ WF_vars(\E h \in Handles : Tick(h))

-----------------------------------------------------------------------------
(* Claims about the camera *)

\* C23: when a directive becomes the target while animated is unset, animated
\* is set to it in the same step; and the first directive of a diagram to
\* become the target is snapped to, never animated, whatever frames, also
\* frames without directive, were rendered before it.
C23_FirstDirectiveSnaps ==
    /\ (camLast.step = "export" /\ ~camLast.animated.has /\ camTarget.has)
           => camAnimated = camTarget
    /\ camFirst.has => camFirst.snapped

CamFields == {"x", "y", "width", "height"}

\* the last step was a tick that found animated and target set
Ticked == camLast.step = "tick" /\ camLast.animated.has /\ camTarget.has

Remaining ==
    Abs(camTarget.x - camAnimated.x) + Abs(camTarget.y - camAnimated.y)
    + Abs(camTarget.width - camAnimated.width) + Abs(camTarget.height - camAnimated.height)

\* no callback is pending and, where the component is mounted and a target is
\* set, animated is within half a pixel of it
AtRest ==
    /\ rafPending = {}
    /\ (svgMounted /\ camAnimated.has /\ camTarget.has) => 2 * Remaining <= Scale

Retargeted ==
    /\ camLast.step = "export"
    /\ svgMounted
    /\ camLast.viewport.has
    /\ camLast.animated.has

\* C26: a directive committed while animated is set, in the middle of an
\* animation or after it, replaces the target only: animated keeps the value
\* it had, and a tick is requested that continues from that value.
C26_RetargetKeepsAnimated ==
    Retargeted =>
        /\ camTarget = camLast.viewport
        /\ camAnimated = camLast.animated
        /\ Cardinality(rafPending) = 1

\* C26 witness: a directive was committed while a tick was pending and x was
\* between its start and the former target; x is where it was and the target
\* is the new directive, which differs from animated.
C26_Witness ==
    /\ Retargeted
    /\ camLast.pending
    /\ camAnimated.x > 0
    /\ camAnimated.x < Px(1)
    /\ camTarget = camLast.viewport
    /\ camTarget.y # camAnimated.y

\* C27: at every moment at most one animation-frame callback is pending, and
\* once the component is unmounted none is pending, whatever renders were
\* suspended in their export at the unmount and resolve after it.
C27_OneCallbackNoneAfterUnmount ==
    /\ Cardinality(rafPending) <= 1
    /\ ~svgMounted => rafPending = {}

\* C27 witness: the component was unmounted in the middle of an animation, with
\* a render of a directive suspended in its export; the export has resolved
\* since and no callback is pending.
C27_Witness ==
    /\ ~svgMounted
    /\ camLast.step = "export"
    /\ camLast.viewport.has
    /\ camAnimated.has
    /\ camTarget.has
    /\ 2 * Remaining > Scale
    /\ rafPending = {}

-----------------------------------------------------------------------------
(* applyViewBox on its own: the component after its first render has       *)
(* committed a directive, for directives of many sizes and proportions.    *)

\* widths and heights in thousandths: 4:3 pairs, pairs within and beyond the
\* tolerance on either side, and small fractional sizes
ViewBoxInputs ==
    {Cam(x, 0, w, h) : x \in {0, Px(100)},
                       w \in {40050, 60500, Px(300), Px(400), Px(600), Px(1024)},
                       h \in {30300, 45020, Px(296), Px(298), Px(300), Px(310), Px(768)}}

ViewBoxInit ==
    /\ ParseIdle
    /\ ServerIdle
    /\ WidgetIdle
    /\ GeomIdle
    /\ AppIdle
    /\ camAnimated \in ViewBoxInputs
    /\ camTarget = camAnimated
    /\ rafPending = {1}
    /\ animFrameRef = 1
    /\ svgMounted = TRUE
    /\ exporting = <<>>
    /\ renders = 1
    /\ boundsOf = 1
    /\ svgImage = 1
    /\ viewBox = applyViewBox(camAnimated, TRUE, 1, 1, NoViewBox)
    /\ camLast = [step |-> "export", viewport |-> camAnimated, animated |-> NoCam,
                  pending |-> FALSE]
    /\ camFirst = [has |-> TRUE, snapped |-> TRUE]
    /\ exportFailed = NoFailure

ViewBoxNext ==
    \/ \E h \in Handles : Tick(h)
    \/ Unmount

SpecViewBox == ViewBoxInit /\ [][ViewBoxNext]_vars

\* C28: the viewport written to the SVG is the animated viewport corrected to
\* 4:3 by enlarging the smaller dimension only: its origin is the animated
\* one, its width and its height are each at least the animated ones, and an
\* animated viewport within 0.01 of 4:3 is written unchanged.
C28_CorrectionNeverCrops ==
    viewBox.has =>
        /\ viewBox.vp.x = camAnimated.x
        /\ viewBox.vp.y = camAnimated.y
        /\ viewBox.vp.width >= camAnimated.width
        /\ viewBox.vp.height >= camAnimated.height
        /\ (viewBox.vp.width = camAnimated.width \/ viewBox.vp.height = camAnimated.height)
        /\ 100 * Abs(3 * camAnimated.width - 4 * camAnimated.height) < 3 * camAnimated.height
               => viewBox.vp = camAnimated

\* C30: when the export of a frame fails, the failure is swallowed and the
\* frame changes nothing: the failing step leaves image and camera as they
\* are, and until a later frame is rendered the scene bounds that project the
\* viewport are those from before the failed frame.
C30_FailedExportChangesNothing ==
    /\ camLast.step = "fail" => camAnimated = camLast.animated
    /\ (exportFailed.has /\ renders = exportFailed.frame)
           => boundsOf = exportFailed.boundsBefore

\* a viewBox was written in the last step: by a commit into the mounted
\* container, or by a tick that found an animated viewport, a target and an SVG
Applied ==
    /\ svgMounted
    /\ svgImage # 0
    /\ \/ camLast.step = "export"
       \/ camLast.step = "tick" /\ camLast.animated.has /\ camTarget.has

\* C33: whenever the viewBox is applied to the displayed SVG, by a render or
\* by an animation tick, the scene bounds used for the translation are those of
\* the element list the displayed SVG was exported from, also while another
\* render has written new bounds and is still suspended in its export.
C33_BoundsOfDisplayedSvg == Applied => viewBox.bounds = svgImage

-----------------------------------------------------------------------------
(* Claims about the camera fallback of a restore call *)

\* The elements of the checkpoint the last frame restored; none without a
\* restore id or without the checkpoint.
BaseOfFrame ==
    IF lastFrame.rid.k = "str" /\ Truthy(lastFrame.rid)
    THEN StoreLoad(store, lastFrame.rid.s).elements
    ELSE <<>>

BaseCameras == {n \in 1..Len(BaseOfFrame) : TypeIs(BaseOfFrame[n], "cameraUpdate")}

\* One frame was delivered, it restored a checkpoint that stores camera
\* directives and carried none of its own, and its pass has completed.
FellBackToBase ==
    /\ lastFrame.kind # "none"
    /\ Len(passes) = 1
    /\ AllPassesDone
    /\ CameraEntries = {}
    /\ BaseCameras # {}

\* C36: when a restore call carries no cameraUpdate of its own, the viewport
\* is the last cameraUpdate stored in the base checkpoint, in the streaming
\* path and in the final path alike.
C36_BaseCameraLastWins ==
    FellBackToBase => targetVP = ViewportOf(BaseOfFrame[SetMax(BaseCameras)])

-----------------------------------------------------------------------------
(* Claims about the cached base of the streaming path *)

\* The streaming passes that have called loadCheckpoint(id) and wait for it.
StreamLoads(id) ==
    {i \in 1..Len(passes) :
        passes[i].kind = "stream" /\ passes[i].pc = "load" /\ passes[i].rid = id}

\* C34: during streaming the checkpoint named by a restore id is loaded at
\* most once per invocation, however the passes of the partial chunks
\* interleave: no two streaming passes are loading the same checkpoint.
C34_LoadedOncePerInvocation ==
    \A n \in 1..Len(GeneratedIds) :
        Cardinality(StreamLoads(StrVal(<<GeneratedIds[n]>>))) <= 1

-----------------------------------------------------------------------------
(* Claims about label merging *)

\* Label merging has just run: gprev is its input and gscene its output.
JustMerged == gstage = -1

\* The texts of the input that the output no longer holds.
RemovedTexts ==
    {n \in 1..Len(gprev) :
        /\ gprev[n].type = "text"
        /\ \A k \in 1..Len(gscene) : gscene[k].id # gprev[n].id}

\* A shape of the output carries the text as its label.
IsLabelOfShape(text) ==
    \E k \in 1..Len(gscene) :
        /\ gscene[k].type \in LABELABLE_SHAPES
        /\ gscene[k].label.has
        /\ gscene[k].label.text = text

\* C35: label merging loses no text: every free-floating text element that
\* mergeGroupTitleTextIntoShapes removes from the scene has its text as the
\* label of a shape in the output.
C35_NoTextLost ==
    JustMerged => \A n \in RemovedTexts : IsLabelOfShape(gprev[n].text)

-----------------------------------------------------------------------------
(* Claims about the two ends of an arrow *)

\* ensureArrowBindings assigned a binding to the n-th element: the input had
\* none at that end and the output has one.
AutoBound(n) ==
    \/ ~gprev[n].startBinding.has /\ gscene[n].startBinding.has
    \/ ~gprev[n].endBinding.has /\ gscene[n].endBinding.has

BothEndsOnOneShape(el) ==
    /\ el.startBinding.has
    /\ el.endBinding.has
    /\ el.startBinding.elementId = el.endBinding.elementId

\* C38: after ensureArrowBindings, no arrow or line for which at least one of
\* the two bindings was assigned automatically has its startBinding and its
\* endBinding on the same shape, whichever end carried an explicit binding.
C38_EndsOnDistinctShapes ==
    FirstBindingDone =>
        \A n \in 1..Len(gprev) :
            (IsArrowOrLine(gprev[n]) /\ AutoBound(n)) => ~BothEndsOnOneShape(gscene[n])

-----------------------------------------------------------------------------
(* The server over create_view and save_checkpoint calls on one store.     *)
(* The store starts empty; create_view mints up to three ids, and          *)
(* save_checkpoint is called with the first minted id or with an id the    *)
(* server never minted.  The data of a save is an object with an elements  *)
(* array, an object without one, the literal null, or a text cut before    *)
(* its end.                                                                *)
(***************************************************************************)

StoreIds == GeneratedIds \o <<"k3">>

\* An id a caller of save_checkpoint holds that create_view never returned.
ForeignId == <<"w1">>

StoreSpecKeys == {<<StoreIds[n]>> : n \in 1..Len(StoreIds)} \cup {ForeignId}

\* The ids save_checkpoint is called with.
SaveIds == {<<StoreIds[1]>>, ForeignId}

StoreRequests ==
    [picks : {<<1, 2>>, <<7>>, <<7, 4, 3>>}, closed : {TRUE}, plan : {"p1", "p2"}]

SaveDatas ==
    [kind : {"object"}, picks : {<<>>, <<3>>}]
    \cup [kind : {"bare", "null", "truncated"}, picks : {<<>>}]

\* The array data.elements holds.
DataElements(d) == [n \in 1..Len(d.picks) |-> ServerPool[d.picks[n]]]

\* The data argument of a save: JSON.stringify({elements}) as the widget
\* sends it, an empty object, null, or the object text without its last unit.
SaveText(d) ==
    LET full == <<"{", Q, "elements", Q, ":">> \o ArrayText(ServerPool, d.picks, FALSE)
                    \o <<"}">>
    IN  CASE d.kind = "object" -> full
          [] d.kind = "bare" -> <<"{", "}">>
          [] d.kind = "null" -> <<"null">>
          [] OTHER -> SubSeq(full, 1, Len(full) - 1)

\* The restore id a request names, empty when it names none.
RestoreIdOf(r) ==
    IF r.picks # <<>> /\ r.picks[1] \in {7, 8}
    THEN ToStr(Get(ServerPool[r.picks[1]], "id"))
    ELSE <<>>

StoreInit ==
    /\ store = [id \in StoreSpecKeys |-> NoCheckpoint]
    /\ prevStore = [id \in StoreSpecKeys |-> NoCheckpoint]
    /\ minted = 0
    /\ req = NoRequest
    /\ result = NoResult
    /\ call = NoCall
    /\ edit = NoEdit
    /\ idem = NoRepeat
    /\ ParseIdle
    /\ WidgetIdle
    /\ GeomIdle
    /\ AppIdle
    /\ CameraIdle

\* One create_view call.  idem keeps the first successful restoring call while
\* the calls after it repeat its arguments and its base was not written.
CreateViewCall(r) ==
    /\ result = NoResult
    /\ minted < Len(StoreIds)
    /\ LET newId == <<StoreIds[minted + 1]>>
           out == CreateViewOutcome(store, RequestText(r), r.plan, newId)
           restored == ~out.result.isError /\ RestoreIdOf(r) # <<>>
       IN  /\ store' = out.store
           /\ result' = out.result
           /\ call' = out.call
           /\ minted' = IF out.result.isError THEN minted ELSE minted + 1
           /\ idem' = IF restored /\ idem.has /\ idem.req = r /\ idem.clean
                      THEN [idem EXCEPT !.again = TRUE]
                      ELSE IF restored
                      THEN [has |-> TRUE, req |-> r, id |-> newId,
                            elements |-> out.call.resolved, plan |-> out.store[newId].plan,
                            clean |-> TRUE, again |-> FALSE]
                      ELSE [idem EXCEPT !.again = FALSE]
    /\ prevStore' = store
    /\ req' = r
    /\ edit' = NoEdit
    /\ UNCHANGED <<parseVars, widgetVars, geomVars, cameraVars, appVars>>

\* One save_checkpoint call, from its arguments to its result.
SaveCheckpoint(id, d) ==
    /\ result = NoResult
    /\ id = ForeignId \/ minted > 0
    /\ LET out == SaveCheckpointOutcome(store, id, SaveText(d))
       IN  /\ store' = out.store
           /\ result' = out.result
           /\ idem' = IF ~out.result.isError /\ idem.has /\ id = RestoreIdOf(idem.req)
                      THEN [idem EXCEPT !.clean = FALSE, !.again = FALSE]
                      ELSE [idem EXCEPT !.again = FALSE]
    /\ prevStore' = store
    /\ edit' = [has |-> TRUE, id |-> id, data |-> d]
    /\ req' = NoRequest
    /\ call' = NoCall
    /\ UNCHANGED minted
    /\ UNCHANGED <<parseVars, widgetVars, geomVars, cameraVars, appVars>>

StoreNext ==
    \/ \E r \in StoreRequests : CreateViewCall(r)
    \/ \E id \in SaveIds, d \in SaveDatas : SaveCheckpoint(id, d)
    \/ Respond

SpecStore == StoreInit /\ [][StoreNext]_vars

-----------------------------------------------------------------------------
(* Claims about repeating a restoring call.                                *)

\* A restoring call has just succeeded that repeats the arguments of an
\* earlier one, with no successful save to the restored id in between.
Repeated == idem.again /\ result = OkResult(result.id)

-----------------------------------------------------------------------------
(* Claims about save_checkpoint.                                           *)

\* A save_checkpoint call has just returned.
SaveReturned == edit.has /\ result # NoResult

\* No checkpoint other than the one named by the call differs from before.
OthersUntouched == \A k \in DOMAIN store \ {edit.id} : store[k] = prevStore[k]

\* The checkpoint the call leaves for data that holds a value: the elements
\* of data (the old ones, or none on a new id, when data has none), the old
\* plan or no plan on a new id.
EffectOfSave ==
    LET old == prevStore[edit.id]
        new == store[edit.id]
    IN  /\ new.present
        /\ new.plan = IF old.present THEN old.plan ELSE NoPlan
        /\ new.elements = IF edit.data.kind = "object" THEN DataElements(edit.data)
                          ELSE old.elements

-----------------------------------------------------------------------------
(* ExcalidrawApp's edit state and the final passes of DiagramView.  A      *)
(* final payload starts doFinal with the editedElements prop of the render *)
(* its effect belongs to; a pass that restores a checkpoint is suspended   *)
(* on loadCheckpoint and finishes later.  User edits arrive with a tool    *)
(* result whose checkpoint has persisted edits, or on leaving fullscreen   *)
(* after the editor changed.                                               *)
(***************************************************************************)

MaxFinals == 2

AppInit == ParseIdle /\ ServerIdle /\ WidgetIdle /\ GeomIdle /\ CameraIdle /\ AppIdle

\* The end of doFinal for pass n: onElements and renderSvgPreview are called
\* unless the editedElements the pass captured is set.
FinishFinal(n, captured) ==
    /\ appElements' = IF captured THEN appElements ELSE [from |-> "tool", pass |-> n]
    /\ preview' = IF captured THEN preview ELSE n
    /\ appLast' = [pass |-> n, hadEdits |-> userEdits = "edits",
                   setElements |-> ~captured, rendered |-> ~captured]

\* app.ontoolinput: the effect of the next render runs doFinal, which either
\* runs to its end or is suspended on the load of the checkpoint it restores.
OnToolInput(restoring) ==
    /\ displayMode = "inline"
    /\ Len(finals) < MaxFinals
    /\ LET captured == userEdits = "edits"
       IN  IF restoring
           THEN /\ finals' = Append(finals, [edited |-> captured, stage |-> "loading"])
                /\ UNCHANGED <<appElements, preview, appLast>>
           ELSE /\ finals' = Append(finals, [edited |-> captured, stage |-> "done"])
                /\ FinishFinal(Len(finals) + 1, captured)
    /\ UNCHANGED <<userEdits, displayMode, latestEdited>>
    /\ UNCHANGED <<parseVars, serverVars, widgetVars, geomVars, cameraVars>>

\* loadCheckpoint resolves and the suspended pass n runs to its end.
LoadReturns(n) ==
    /\ finals[n].stage = "loading"
    /\ finals' = [finals EXCEPT ![n].stage = "done"]
    /\ FinishFinal(n, finals[n].edited)
    /\ UNCHANGED <<userEdits, displayMode, latestEdited>>
    /\ UNCHANGED <<parseVars, serverVars, widgetVars, geomVars, cameraVars>>

\* setElements(edited); setUserEdits(edited)
SyncEdits ==
    /\ appElements' = [from |-> "edits", pass |-> 0]
    /\ userEdits' = "edits"

\* app.ontoolresult: persisted edits of the result's checkpoint become the
\* user edits.
OnToolResult(persisted) ==
    /\ finals # <<>>
    /\ IF persisted THEN SyncEdits ELSE UNCHANGED <<appElements, userEdits>>
    /\ UNCHANGED <<displayMode, latestEdited, finals, preview, appLast>>
    /\ UNCHANGED <<parseVars, serverVars, widgetVars, geomVars, cameraVars>>

\* The editor reports a change while it is shown.
EditorChange ==
    /\ displayMode = "fullscreen"
    /\ ~latestEdited
    /\ latestEdited' = TRUE
    /\ UNCHANGED <<userEdits, appElements, displayMode, finals, preview, appLast>>
    /\ UNCHANGED <<parseVars, serverVars, widgetVars, geomVars, cameraVars>>

\* toggleFullscreen, and the host changing the display mode: the edits of
\* the editor are synced on the way to inline.
ToggleFullscreen ==
    /\ LET newMode == IF displayMode = "fullscreen" THEN "inline" ELSE "fullscreen"
       IN  /\ IF newMode = "inline" /\ latestEdited THEN SyncEdits
              ELSE UNCHANGED <<appElements, userEdits>>
           /\ displayMode' = newMode
    /\ UNCHANGED <<latestEdited, finals, preview, appLast>>
    /\ UNCHANGED <<parseVars, serverVars, widgetVars, geomVars, cameraVars>>

AppNext ==
    \/ \E restoring \in BOOLEAN : OnToolInput(restoring)
    \/ \E n \in 1..Len(finals) : LoadReturns(n)
    \/ \E persisted \in BOOLEAN : OnToolResult(persisted)
    \/ EditorChange
    \/ ToggleFullscreen

SpecApp == AppInit /\ [][AppNext]_vars

-----------------------------------------------------------------------------
(* Claims about user edits and the final pass.                             *)

\* C32: once user edits exist, the end of a final pass neither replaces the
\* elements state with tool-derived elements nor renders the preview from the
\* tool input, also when the pass was suspended on its checkpoint load when the
\* edits arrived.
C32_EditsSurviveFinalPass ==
    (appLast.pass # 0 /\ appLast.hadEdits) => ~appLast.setElements /\ ~appLast.rendered

=============================================================================
